---- MODULE Spec2Model ----
(***************************************************************************)
(* Question-flow engines of the hiring voice bot:                          *)
(*   - fastagi_server.py: ask_question and the sequential loop of          *)
(*     agi_main_flow_custom ("seq");                                       *)
(*   - src/dialogue_manager.py: DialogueManager.run_conversation, which    *)
(*     drives fastagi_server.ask_question ("run");                         *)
(*   - dialogue_manager.py: DialogueManager.process_input ("proc");        *)
(*   - src/dialogue_utils.py: the second copy of ask_question ("utils").   *)
(* Texts are TLA+ strings; the Python string operations the code uses      *)
(* (strip, lower, replace, in) are computed character by character.        *)
(* The collaborators (speech recognition, the LLM behind query_llm) are    *)
(* inputs drawn from the finite sets below.                                *)
(***************************************************************************)
EXTENDS Integers, Sequences, FiniteSets, TLC

VARIABLES engine, questions, current_index, candidate_responses,
          clarification_mode, smart_prompt, pc, turn, hangups, asked,
          fup_checks, result, final_played, files, sess, twin, script, listen,
          history, reply

(* the state of the question-flow engines *)
flow_vars == <<questions, current_index, candidate_responses,
               clarification_mode, smart_prompt, pc, turn, hangups, asked,
               fup_checks, result, final_played>>

(* the state of the AGI support bot of agi_main.py *)
agi_vars == <<files, sess>>

(* the state of everything that is not a question-flow engine *)
other_vars == <<agi_vars, twin, script, listen, history, reply>>

(* what the actions of one engine leave alone *)
not_agi == <<engine, flow_vars, twin, script, listen, history, reply>>
not_twin == <<engine, flow_vars, agi_vars, script, listen, history, reply>>
not_script == <<engine, flow_vars, agi_vars, twin, listen, history, reply>>
not_listen == <<engine, flow_vars, agi_vars, twin, script, history, reply>>
not_history == <<engine, flow_vars, agi_vars, twin, script, listen, reply>>
not_reply == <<engine, flow_vars, agi_vars, twin, script, listen, history>>

vars == <<engine, flow_vars, other_vars>>

-----------------------------------------------------------------------------
(* Python None, and a dict key that is absent.                             *)
None == "<None>"

-----------------------------------------------------------------------------
(* Python string operations.                                               *)

UpperAZ == "ABCDEFGHIJKLMNOPQRSTUVWXYZ"
LowerAZ == "abcdefghijklmnopqrstuvwxyz"

CharAt(s, i) == SubSeq(s, i, i)

IsSpace(c) == c \in {" ", "\n", "\t"}

LowerChar(c) ==
    IF \E i \in 1..26 : CharAt(UpperAZ, i) = c
      THEN CharAt(LowerAZ, CHOOSE i \in 1..26 : CharAt(UpperAZ, i) = c)
      ELSE c

RECURSIVE Lower(_)
Lower(s) == IF Len(s) = 0 THEN "" ELSE LowerChar(CharAt(s, 1)) \o Lower(Tail(s))

RECURSIVE LStrip(_)
LStrip(s) ==
    IF Len(s) > 0 /\ IsSpace(CharAt(s, 1)) THEN LStrip(Tail(s)) ELSE s

RECURSIVE RStrip(_)
RStrip(s) ==
    IF Len(s) > 0 /\ IsSpace(CharAt(s, Len(s)))
      THEN RStrip(SubSeq(s, 1, Len(s) - 1))
      ELSE s

Strip(s) == RStrip(LStrip(s))

(* t in s *)
Contains(s, t) ==
    \E i \in 1..(Len(s) - Len(t) + 1) : SubSeq(s, i, i + Len(t) - 1) = t

(* s.replace(t, ""): the non-overlapping occurrences, left to right *)
RECURSIVE Remove(_, _)
Remove(s, t) ==
    IF Len(s) < Len(t) \/ Len(t) = 0 THEN s
    ELSE IF SubSeq(s, 1, Len(t)) = t
      THEN Remove(SubSeq(s, Len(t) + 1, Len(s)), t)
      ELSE CharAt(s, 1) \o Remove(Tail(s), t)

(* x in list *)
InList(x, list) == \E i \in 1..Len(list) : list[i] = x

-----------------------------------------------------------------------------
(* LLM helpers.  raw_result is what query_llm returned for the helper's    *)
(* prompt.  "copy" names the file the helper is taken from: "fastagi" for  *)
(* fastagi_server.py, "helpers" for src/ai/ai_helpers.py.                  *)

LLMTokens ==
    << "<|im_start|>user<|im_sep|>", "<|im_start|>assistant<|im_sep|>", "<|im_end|>" >>

clean_llm_response(response) ==
    Strip(Remove(Remove(Remove(response, LLMTokens[1]), LLMTokens[2]), LLMTokens[3]))

determine_sentiment(raw_result) ==
    IF Contains(Lower(clean_llm_response(raw_result)), "negative")
      THEN "negative"
      ELSE "positive"

(* validate_option without the membership test *)
validate_option_unchecked(raw_result, valid_options) ==
    Strip(Lower(clean_llm_response(raw_result)))

validate_option(raw_result, valid_options) ==
    LET res == Strip(Lower(clean_llm_response(raw_result)))
    IN  IF InList(res, valid_options) THEN res ELSE None

generate_smart_clarification(raw_response) == clean_llm_response(raw_response)

is_followup_question(copy, raw_result) ==
    LET res == Lower(clean_llm_response(raw_result))
    IN  IF copy = "fastagi" THEN Contains(res, "yes") ELSE Strip(res) = "yes"

-----------------------------------------------------------------------------
(* Question data.  A question is a dict; absent optional keys are None.    *)
(* A condition is the lambda  responses.get(cond_key, "") == cond_value.    *)

Question(key, question, valid_options, exit_if, exit_message, cond_key, cond_value) ==
    [key |-> key, question |-> question, valid_options |-> valid_options,
     exit_if |-> exit_if, exit_message |-> exit_message,
     cond_key |-> cond_key, cond_value |-> cond_value]

(* fastagi_server.py, agi_main_flow_custom: candidate_name = "Ravinder",   *)
(* company_name = "Maxicus".  The prompts are cut after their first        *)
(* sentence; nothing in the flow reads them.                               *)
HardQuestions == <<
    Question("confirmation", "Hi Ravinder! this is Maxicus calling.",
             <<"yes", "no">>, "no",
             "I understand, Thank you so much for your time. Hope you have nice day!",
             None, None),
    Question("qualification", "Great, thanks for confirming!",
             <<"10th", "post-graduate", "graduate", "12th">>, None, None, None, None),
    Question("diploma", "I see, by any chance, do you also have a 3-year diploma along with it?",
             <<"yes", "no">>, None, None, "qualification", "10th"),
    Question("job_type", "Perfect, that really helps.",
             <<"permanent", "full time", "part-time", "freelance", "gig">>,
             None, None, None, None),
    Question("location", "Awesome. Now, what is your preferred location for work?",
             <<"amritsar", "vadodara", "kolkata", "banglore", "gurugram", "pune">>,
             None, None, None, None),
    Question("interview_mode", "Almost there. How would you like to have your interview?",
             <<"in-person", "virtual", "video call", "telephonic", "phone">>,
             None, None, None, None),
    Question("consent", "Thanks, that is very helpful.",
             <<"yes", "no">>, "no",
             "I understand, Thank you so much for your time. We respect your decision and will not share your details. Have an amazing day!",
             None, None) >>

(* dialogue_manager.py, sample_questions *)
SampleQuestions == <<
    Question("confirmation",
             "Hello Candidate! This is Maxicus calling. Are you still interested in joining our team? Answer yes or no.",
             <<"yes", "no">>, "no",
             "I understand, thank you for your time. Have a nice day!", None, None),
    Question("qualification",
             "What is your highest qualification? Options: 10th, Post-graduate, Graduate, or 12th.",
             <<"10th", "post-graduate", "graduate", "12th">>, None, None, None, None) >>

(* A list a caller of DialogueManager may pass: options given in mixed     *)
(* case, an exit_if on an option question (with and without an             *)
(* exit_message), and a conditional yes/no question.                       *)
OptionQuestions == <<
    Question("loc", "Which location do you prefer?",
             <<"Amritsar", "Pune", "Remote">>, "Remote", None, None, None),
    Question("relocate", "Would you relocate?",
             <<"yes", "no">>, None, None, "loc", "amritsar"),
    Question("mode", "How would you like to have your interview?",
             <<"Phone", "Virtual">>, "Virtual", "Bye!", None, None) >>

(* A list with question dictionaries that carry no usable options: an     *)
(* exit_if that is not among the valid options, and an empty               *)
(* valid_options.  DialogueManager.__init__ stores the list it is given    *)
(* and ask_question lower-cases whatever valid_options holds.              *)
MalformedQuestions == <<
    Question("city", "Which city do you live in?",
             <<"Pune", "Delhi">>, "Mumbai", None, None, None),
    Question("shift", "Which shift do you prefer?",
             <<>>, None, None, None, None) >>

QuestionLists == {HardQuestions, SampleQuestions, OptionQuestions, MalformedQuestions}

final_msg ==
    "Fantastic, Ravinder! That's all we need for now. Thank you for your time. Our team at Maxicus will review your details and reach out soon. Have a great day!"

NoInputGoodbye == "No input received. Ending session. Goodbye!"
DefaultGoodbye == "Thank you for your time. Goodbye!"
DefaultExitGoodbye == "i see, Thank you so much for your time. Goodbye!"

(* q["condition"](responses), for a question that has one *)
Condition(q, responses) ==
    (IF q.cond_key \in DOMAIN responses THEN responses[q.cond_key] ELSE "") = q.cond_value

(* if "condition" in q and not q["condition"](candidate_details): continue *)
Skipped(q, responses) == q.cond_key # None /\ ~Condition(q, responses)

LowerOptions(q) == [i \in 1..Len(q.valid_options) |-> Lower(q.valid_options[i])]

IsBinary(q) == LowerOptions(q) = <<"yes", "no">>

(* response = response.strip().lower() if response else "" *)
CleanResponse(stt_result) ==
    IF stt_result = None \/ stt_result = "" THEN "" ELSE Lower(Strip(stt_result))

(* dict assignment d[k] = v *)
Put(d, k, v) == [x \in DOMAIN d \cup {k} |-> IF x = k THEN v ELSE d[x]]

EmptyDict == [x \in {} |-> ""]

-----------------------------------------------------------------------------
(* What the collaborators may return.                                      *)

Apology == "Sorry, I encountered an issue processing your request."

(* The recognizer's result: result.text when result.reason is             *)
(* RecognizedSpeech, otherwise the reason.                                 *)
NoMatch == "<NoMatch>"
Canceled == "<Canceled>"
SpeechResults == {NoMatch, Canceled, "  ", "Yes I am", "10th", "Pune please"}

(* stt.recognize_from_file: result.text, None for NoMatch and for Canceled *)
recognize_from_file(speech) == IF speech \in {NoMatch, Canceled} THEN None ELSE speech

(* The synthesizer's result.reason in tts.generate_tts_file:               *)
(* SynthesizingAudioCompleted ("ok"), or Canceled, which is printed and    *)
(* leaves no new audio for the stream_file that follows.                   *)
TTSOutcomes == {"ok", "canceled"}

(* stt.recognize_from_file: the transcript, or None *)
STTResults == {None, "  ", "Yes I am", "10th", "Pune please"}

(* what the driver of process_input may pass as user_input *)
UserInputs == {"", "10th", "pune please"}

(* query_llm, by the helper that asks *)
SentimentReplies ==
    {"positive", "Negative.", "<|im_start|>assistant<|im_sep|>negative<|im_end|>", Apology}
FollowUpReplies == {"Yes", "no", "Yes, they ask about the options.", Apology}
ValidateReplies ==
    {"none", "10th", "Graduate", "full time", " Pune\n", "phone", "amritsar", "remote",
     "virtual", "pune or amritsar", Apology}
ClarifyReplies == {"Please choose one of the options.", Apology}

-----------------------------------------------------------------------------
(* The helpers' values on the inputs above, computed once.                 *)

AllQuestions == UNION {{l[i] : i \in DOMAIN l} : l \in QuestionLists}

CleanResponseOf == [s \in STTResults |-> CleanResponse(s)]
SentimentOf == [r \in SentimentReplies |-> determine_sentiment(r)]
SentimentTextOf == [r \in SentimentReplies |-> Lower(clean_llm_response(r))]
FollowUpOf ==
    [copy \in {"fastagi", "helpers"} |->
        [r \in FollowUpReplies |-> is_followup_question(copy, r)]]
LowerOptionsOf == [q \in AllQuestions |-> LowerOptions(q)]
ValidatedOf ==
    [q \in AllQuestions |->
        [r \in ValidateReplies |-> validate_option(r, LowerOptionsOf[q])]]
(* what query_llm may return to validate_option for the question q: one    *)
(* of q's options, or a text that is none of them                          *)
ValidateRepliesOf ==
    [q \in AllQuestions |->
        {r \in ValidateReplies : ValidatedOf[q][r] # None}
            \cup {"none", "pune or amritsar", Apology}]
ValidateTextOf == [r \in ValidateReplies |-> Strip(Lower(clean_llm_response(r)))]
ClarificationOf == [r \in ClarifyReplies |-> generate_smart_clarification(r)]
ExitIfOf == [q \in AllQuestions |-> IF q.exit_if = None THEN None ELSE Lower(q.exit_if)]
IsBinaryOf == [q \in AllQuestions |-> IsBinary(q)]

(* the replies as the engines see them *)
Replies == {CleanResponseOf[s] : s \in STTResults} \cup UserInputs \cup {None}
(* the valid options a reply equals or contains *)
OptionsIn ==
    [q \in AllQuestions |->
        [r \in Replies |->
            {o \in {LowerOptionsOf[q][i] : i \in DOMAIN LowerOptionsOf[q]} :
                Contains(Lower(r), o)}]]


-----------------------------------------------------------------------------
(* One pass of the  while True  loop of ask_question.  The value is what   *)
(* the pass did: the prompt synthesized and played, the cleaned response,  *)
(* the LLM helpers called (in order) and what they returned (sentiment and *)
(* stext, the text determine_sentiment got it from), the farewell          *)
(* chosen, whether the channel was hung up, the value returned (kind       *)
(* "answer": ret; kinds "no_input" and "exit": None) or that the loop      *)
(* continues (kind "clarify"), clarification_mode at the start of the     *)
(* pass (clarifying), and the locals clarification_mode and smart_prompt   *)
(* after the pass; the recognizer's result (speech), the synthesizer's     *)
(* results for the prompt (tts) and for the farewell (tts_goodbye), the    *)
(* operations of the pass in the order they were made (ops) and the texts  *)
(* that were synthesized and streamed to the caller (spoken), and the      *)
(* response handed to generate_smart_clarification (clarification_of).     *)

NoTurn ==
    [kind |-> "none", key |-> None, prompt |-> None, response |-> None,
     calls |-> <<>>, sentiment |-> None, stext |-> None, followup |-> FALSE, vtext |-> None,
     goodbye |-> None, hangup |-> FALSE, ret |-> None, clarifying |-> FALSE,
     clarification_mode |-> FALSE, smart_prompt |-> "", clarification_of |-> None,
     speech |-> None, tts |-> None, tts_goodbye |-> None, ops |-> <<>>, spoken |-> <<>>]

(* question_data.get(field, default) *)
Get(value, default) == IF value = None THEN default ELSE value

(* if response == "": farewell, hangup, return None *)
ask_question_no_input(base) ==
    [base EXCEPT !.kind = "no_input", !.goodbye = NoInputGoodbye, !.hangup = TRUE]

(* ask_question_binary, except that a negative reply to a question with   *)
(* no exit_if is returned as the answer "no"                               *)
ask_question_binary_returning_no(base, q, r_sent) ==
    LET sentiment == SentimentOf[r_sent]
        called == [base EXCEPT !.calls = <<"determine_sentiment">>,
                               !.sentiment = sentiment,
                               !.stext = SentimentTextOf[r_sent]]
    IN  IF sentiment = "negative" /\ q.exit_if = None
          THEN [called EXCEPT !.kind = "answer", !.ret = "no"]
        ELSE IF sentiment = "negative"
          THEN [called EXCEPT !.kind = "exit",
                              !.goodbye = Get(q.exit_message, DefaultGoodbye),
                              !.hangup = TRUE]
          ELSE [called EXCEPT !.kind = "answer", !.ret = "yes"]

(* if valid_options == ["yes", "no"]: ... *)
ask_question_binary(base, q, r_sent) ==
    LET sentiment == SentimentOf[r_sent]
        called == [base EXCEPT !.calls = <<"determine_sentiment">>,
                               !.sentiment = sentiment,
                               !.stext = SentimentTextOf[r_sent]]
    IN  IF sentiment = "negative"
          THEN [called EXCEPT !.kind = "exit",
                              !.goodbye = Get(q.exit_message, DefaultGoodbye),
                              !.hangup = TRUE]
          ELSE [called EXCEPT !.kind = "answer", !.ret = "yes"]

(* ask_question_validated without the exit_if check *)
ask_question_validated_no_exit(base, q, validated, default_goodbye) ==
    [base EXCEPT !.kind = "answer", !.ret = validated]

(* validated == question_data["exit_if"].lower(): farewell, hangup, None;  *)
(* else return validated.  default_goodbye is the copy's default farewell. *)
ask_question_validated(base, q, validated, default_goodbye) ==
    IF q.exit_if # None /\ validated = ExitIfOf[q]
      THEN [base EXCEPT !.kind = "exit",
                        !.goodbye = Get(q.exit_message, default_goodbye),
                        !.hangup = TRUE]
      ELSE [base EXCEPT !.kind = "answer", !.ret = validated]

(* ask_question_options with a direct match tried before any LLM helper *)
ask_question_options_direct(base, copy, q, r_fup, r_val, r_clar) ==
    LET direct == OptionsIn[q][base.response]
        validated == ValidatedOf[q][r_val]
        clarified == [base EXCEPT !.kind = "clarify",
                                  !.clarification_of = base.response,
                                  !.smart_prompt = ClarificationOf[r_clar],
                                  !.clarification_mode = TRUE]
    IN  IF direct # {}
          THEN [base EXCEPT !.kind = "answer", !.ret = CHOOSE o \in direct : TRUE]
        ELSE IF validated # None
          THEN ask_question_validated(
                   [base EXCEPT !.calls = <<"validate_option">>,
                                !.vtext = ValidateTextOf[r_val]],
                   q, validated,
                   IF copy = "fastagi" THEN DefaultExitGoodbye ELSE DefaultGoodbye)
          ELSE [clarified EXCEPT
                   !.vtext = ValidateTextOf[r_val],
                   !.calls = <<"validate_option", "generate_smart_clarification">>]

(* ask_question_options without the clarification_mode guard on the       *)
(* follow-up check                                                         *)
ask_question_options_recheck(base, copy, q, r_fup, r_val, r_clar) ==
    LET followup == r_fup # None /\ FollowUpOf[copy][r_fup]
        validated == ValidatedOf[q][r_val]
        clarified == [base EXCEPT !.kind = "clarify",
                                  !.clarification_of = base.response,
                                  !.smart_prompt = ClarificationOf[r_clar],
                                  !.clarification_mode = TRUE]
    IN  IF followup
          THEN [clarified EXCEPT !.followup = TRUE,
                   !.calls = <<"is_followup_question", "generate_smart_clarification">>]
        ELSE IF validated # None
          THEN ask_question_validated(
                   [base EXCEPT !.calls = <<"is_followup_question", "validate_option">>,
                                !.vtext = ValidateTextOf[r_val]],
                   q, validated,
                   IF copy = "fastagi" THEN DefaultExitGoodbye ELSE DefaultGoodbye)
          ELSE [clarified EXCEPT
                   !.vtext = ValidateTextOf[r_val],
                   !.calls = <<"is_followup_question", "validate_option",
                               "generate_smart_clarification">>]

(* ask_question_options with the follow-up check made after validation    *)
(* has failed                                                              *)
ask_question_options_validate_first(base, copy, q, r_fup, r_val, r_clar) ==
    LET checked == ~base.clarification_mode
        validated == ValidatedOf[q][r_val]
        followup == checked /\ FollowUpOf[copy][r_fup]
        fcalls == IF checked THEN <<"is_followup_question">> ELSE <<>>
        clarified == [base EXCEPT !.kind = "clarify",
                                  !.clarification_of = base.response,
                                  !.smart_prompt = ClarificationOf[r_clar],
                                  !.clarification_mode = TRUE,
                                  !.vtext = ValidateTextOf[r_val]]
    IN  IF validated # None
          THEN ask_question_validated(
                   [base EXCEPT !.calls = <<"validate_option">>,
                                !.vtext = ValidateTextOf[r_val]],
                   q, validated,
                   IF copy = "fastagi" THEN DefaultExitGoodbye ELSE DefaultGoodbye)
          ELSE [clarified EXCEPT !.followup = followup,
                   !.calls = <<"validate_option">> \o fcalls
                             \o <<"generate_smart_clarification">>]

(* The rest of the pass for a question that is not yes/no: the follow-up   *)
(* check (skipped in clarification mode), validate_option, clarification.  *)
ask_question_options(base, copy, q, r_fup, r_val, r_clar) ==
    LET checked == ~base.clarification_mode
        followup == checked /\ FollowUpOf[copy][r_fup]
        fcalls == IF checked THEN <<"is_followup_question">> ELSE <<>>
        validated == ValidatedOf[q][r_val]
        clarified == [base EXCEPT !.kind = "clarify",
                                  !.clarification_of = base.response,
                                  !.smart_prompt = ClarificationOf[r_clar],
                                  !.clarification_mode = TRUE]
    IN  IF followup
          THEN [clarified EXCEPT !.followup = TRUE,
                   !.calls = fcalls \o <<"generate_smart_clarification">>]
        ELSE IF validated # None
          THEN ask_question_validated(
                   [base EXCEPT !.calls = fcalls \o <<"validate_option">>,
                                !.vtext = ValidateTextOf[r_val]],
                   q, validated,
                   IF copy = "fastagi" THEN DefaultExitGoodbye ELSE DefaultGoodbye)
          ELSE [clarified EXCEPT
                   !.vtext = ValidateTextOf[r_val],
                   !.calls = fcalls \o <<"validate_option", "generate_smart_clarification">>]

(* ask_question, except that every pass plays the primary prompt *)
ask_question_replaying_primary(copy, q, clar, smart, stt_result, r_sent, r_fup, r_val, r_clar) ==
    LET base == [NoTurn EXCEPT !.key = q.key,
                               !.prompt = q.question,
                               !.response = CleanResponseOf[stt_result],
                               !.clarifying = clar,
                               !.clarification_mode = clar,
                               !.smart_prompt = smart]
    IN  IF base.response = "" THEN ask_question_no_input(base)
        ELSE IF IsBinaryOf[q] THEN ask_question_binary(base, q, r_sent)
        ELSE ask_question_options(base, IF copy = "fastagi" THEN "fastagi" ELSE "helpers",
                                  q, r_fup, r_val, r_clar)

ask_question(copy, q, clar, smart, stt_result, r_sent, r_fup, r_val, r_clar) ==
    LET base == [NoTurn EXCEPT !.key = q.key,
                               !.prompt = IF clar THEN smart ELSE q.question,
                               !.response = CleanResponseOf[stt_result],
                               !.clarifying = clar,
                               !.clarification_mode = clar,
                               !.smart_prompt = smart]
    IN  IF base.response = "" THEN ask_question_no_input(base)
        ELSE IF IsBinaryOf[q] THEN ask_question_binary(base, q, r_sent)
        ELSE ask_question_options(base, IF copy = "fastagi" THEN "fastagi" ELSE "helpers",
                                  q, r_fup, r_val, r_clar)

(* generate_tts_file(text, ...) followed by stream_file: the audio the     *)
(* caller gets                                                             *)
Streamed(text, outcome) == IF outcome = "ok" THEN <<text>> ELSE <<>>

(* ask_question_speech, except that a pass whose prompt could not be       *)
(* synthesized ends the call as if nothing had been recognized             *)
ask_question_speech_canceled_ends(t, speech, tts_prompt, tts_farewell) ==
    LET heard == [t EXCEPT
                    !.speech = speech,
                    !.tts = tts_prompt,
                    !.spoken = Streamed(t.prompt, tts_prompt),
                    !.ops = <<"generate_tts_file", "stream_file", "record_file",
                              "recognize_from_file">> \o t.calls]
    IN  IF tts_prompt = "canceled"
          THEN [heard EXCEPT !.kind = "no_input", !.goodbye = NoInputGoodbye,
                             !.hangup = TRUE, !.ret = None]
        ELSE IF t.goodbye = None THEN heard
        ELSE [heard EXCEPT
                !.tts_goodbye = tts_farewell,
                !.spoken = @ \o Streamed(t.goodbye, tts_farewell),
                !.ops = @ \o <<"generate_tts_file", "stream_file", "hangup">>]

(* The speech side of one pass of ask_question, around the classification  *)
(* t: the prompt is synthesized and streamed, the reply recorded and       *)
(* recognized, the helpers called, and on the paths that end the call the  *)
(* farewell is synthesized and streamed and the channel hung up.           *)
ask_question_speech(t, speech, tts_prompt, tts_farewell) ==
    LET heard == [t EXCEPT
                    !.speech = speech,
                    !.tts = tts_prompt,
                    !.spoken = Streamed(t.prompt, tts_prompt),
                    !.ops = <<"generate_tts_file", "stream_file", "record_file",
                              "recognize_from_file">> \o t.calls]
    IN  IF t.goodbye = None THEN heard
        ELSE [heard EXCEPT
                !.tts_goodbye = tts_farewell,
                !.spoken = @ \o Streamed(t.goodbye, tts_farewell),
                !.ops = @ \o <<"generate_tts_file", "stream_file", "hangup">>]

(* the synthesizer results that matter to the pass t *)
FarewellOutcomes(t) == IF t.goodbye = None THEN {None} ELSE TTSOutcomes

-----------------------------------------------------------------------------
(* DialogueManager.process_input (dialogue_manager.py), one call.  The     *)
(* value holds the dict returned (action, prompt), the members             *)
(* current_index and candidate_responses after the call, and, as for       *)
(* ask_question, the helpers called.  "q is None" is idx >= Len(qs).       *)
(* conversation_history is only ever appended to and never read; it is     *)
(* left out.                                                               *)

get_current_question(qs, idx) == IF idx < Len(qs) THEN qs[idx + 1] ELSE None

process_input(qs, idx, responses, user_input, r_sent, r_fup, r_val, r_clar) ==
    LET q == get_current_question(qs, idx)
        base == [NoTurn EXCEPT !.response = user_input]
        out(t, action, prompt, i, r) ==
            [turn |-> t, action |-> action, prompt |-> prompt,
             current_index |-> i, candidate_responses |-> r]
        end(t) == out([t EXCEPT !.kind = "exit"], "end",
                      Get(q.exit_message, DefaultGoodbye), idx, responses)
        clarify(t) ==
            LET smart == ClarificationOf[r_clar]
            IN  out([t EXCEPT !.kind = "clarify", !.smart_prompt = smart,
                              !.clarification_of = t.response,
                              !.calls = t.calls \o <<"generate_smart_clarification">>],
                    "clarify", smart, idx, responses)
        record(t, answer) ==
            IF q.exit_if # None /\ answer = ExitIfOf[q] THEN end(t)
            ELSE LET next_question == get_current_question(qs, idx + 1)
                     rec == [t EXCEPT !.kind = "answer", !.ret = answer]
                     r == Put(responses, q.key, answer)
                 IN  IF idx + 1 < Len(qs)
                       THEN out(rec, "next", next_question.question, idx + 1, r)
                       ELSE out(rec, "complete", final_msg, idx + 1, r)
    IN  IF idx >= Len(qs) THEN out([base EXCEPT !.kind = "complete"], "complete", "", idx, responses)
        ELSE LET keyed == [base EXCEPT !.key = q.key]
                 valid_options == LowerOptionsOf[q]
             IN  IF valid_options = <<"yes", "no">>
                   THEN LET sentiment == SentimentOf[r_sent]
                            t == [keyed EXCEPT !.calls = <<"determine_sentiment">>,
                                               !.sentiment = sentiment,
                               !.stext = SentimentTextOf[r_sent]]
                        IN  IF sentiment = "negative" THEN end(t) ELSE record(t, "yes")
                 ELSE IF FollowUpOf["helpers"][r_fup]
                   THEN clarify([keyed EXCEPT !.calls = <<"is_followup_question">>,
                                              !.followup = TRUE])
                 ELSE LET answer == ValidatedOf[q][r_val]
                          t == [keyed EXCEPT
                                  !.calls = <<"is_followup_question", "validate_option">>,
                                  !.vtext = ValidateTextOf[r_val]]
                      IN  IF answer = None THEN clarify(t) ELSE record(t, answer)

(***************************************************************************)
(* agi_main.py: the AGI support bot.  Asterisk starts one agi_main_flow    *)
(* process per call, so two calls run the flow concurrently; they share    *)
(* the sounds directory.  files maps a file of that directory to the       *)
(* utterance it holds and the session that wrote it.                       *)
(***************************************************************************)
Sessions == {1, 2}

(* uniqueid = env.get("agi_uniqueid", "default"): Asterisk gives each call *)
(* its own id                                                              *)
uniqueid(s) == IF s = 1 THEN "1001" ELSE "1002"

welcome_message == "Welcome to Zomato customer support. How can I assist you today?"

AgiExitGoodbye == "Thank you for contacting Zomato support. Have a great day!"

exit_keywords == <<"bye", "exit", "quit", "end call", "goodbye", "thank you", "that's all">>

(* f"input_{uniqueid}", f"response_{uniqueid}"; "welcome" and "goodbye"    *)
(* are literal names                                                       *)
input_filename(s) == "input_" \o uniqueid(s)

response_filename(s) == "response_" \o uniqueid(s)

FileNames == {"welcome", "goodbye"}
               \cup {input_filename(s) : s \in Sessions}
               \cup {response_filename(s) : s \in Sessions}

NoFile == [text |-> None, by |-> 0]

(* what the recognizer makes of a caller's recording *)
AgiSpeech == {NoMatch, "Where is my order", "Thank you, bye"}

(* what query_llm returns: a completion, or the apology of its except branch *)
AgiReplies == {"<|im_start|>assistant<|im_sep|>It is on the way. <|im_end|>", Apology}

(* any(keyword in user_input.lower() for keyword in exit_keywords) *)
is_exit(user_input) ==
    \E i \in DOMAIN exit_keywords : Contains(Lower(user_input), exit_keywords[i])

IsExitOf == [u \in AgiSpeech \ {NoMatch} |-> is_exit(u)]

(* ai_response.replace("<|im_start|>assistant<|im_sep|>", "")              *)
(*            .replace("<|im_end|>", "").strip()                           *)
clean_response(ai_response) ==
    Strip(Remove(Remove(ai_response, "<|im_start|>assistant<|im_sep|>"), "<|im_end|>"))

CleanReplyOf == [r \in AgiReplies |-> clean_response(r)]

(* a session: pc is its position, text the utterance it last synthesized   *)
(* or is about to, file the name it streams next, then what follows the    *)
(* playback, heard what its caller was last played, calls the helpers of   *)
(* its last turn                                                           *)
AgiStart == [pc |-> "tts", text |-> welcome_message, file |-> "welcome",
             then |-> "record", heard |-> NoFile, user_input |-> None,
             calls |-> <<>>, hungup |-> FALSE]

(***************************************************************************)
(* agi_main_flow_custom as a function of the run's locals, for two runs    *)
(* side by side.  A run is the loop position, the answers, ask_question's  *)
(* locals, and what the run last asked to be spoken and how its last pass  *)
(* ended.                                                                  *)
(***************************************************************************)
TwinStart ==
    [current_index |-> 0, candidate_responses |-> EmptyDict,
     clarification_mode |-> FALSE, smart_prompt |-> "", pc |-> "loop",
     prompt |-> None, kind |-> "none", goodbye |-> None, hangup |-> FALSE]

(* the head of the for loop: a conditional question is skipped, the next   *)
(* question is handed to ask_question, or the final message is played      *)
twin_loop(qs, r) ==
    IF r.pc # "loop" THEN r
    ELSE IF r.current_index = Len(qs)
      THEN [r EXCEPT !.pc = "done", !.prompt = final_msg, !.kind = "complete",
                     !.hangup = TRUE]
    ELSE IF Skipped(qs[r.current_index + 1], r.candidate_responses)
      THEN [r EXCEPT !.current_index = @ + 1]
    ELSE [r EXCEPT !.pc = "ask", !.clarification_mode = FALSE, !.smart_prompt = ""]

(* the run after the pass t of ask_question *)
twin_pass(r, t) ==
    LET seen == [r EXCEPT !.prompt = t.prompt, !.kind = t.kind, !.goodbye = t.goodbye,
                          !.hangup = t.hangup,
                          !.clarification_mode = t.clarification_mode,
                          !.smart_prompt = t.smart_prompt]
    IN  IF t.kind = "clarify" THEN seen
        ELSE IF t.kind = "answer"
          THEN [seen EXCEPT !.candidate_responses = Put(@, t.key, t.ret),
                            !.current_index = @ + 1,
                            !.pc = "loop"]
        ELSE [seen EXCEPT !.pc = "done"]

(* another result of the synthesizer, and another result of the            *)
(* recognizer with the same recognized text                                *)
OtherOutcome(outcome) ==
    CASE outcome = "ok" -> "canceled"
      [] outcome = "canceled" -> "ok"
      [] outcome = NoMatch -> Canceled
      [] outcome = Canceled -> NoMatch
      [] OTHER -> outcome

(***************************************************************************)
(* The two copies of ask_question, fastagi_server.py and dialogue_utils.py, *)
(* side by side on one question.  A run is ask_question's locals and what  *)
(* its last pass played, whether it hung up and what it returned.          *)
(***************************************************************************)
CopyStart ==
    [pc |-> "ask", clarification_mode |-> FALSE, smart_prompt |-> "",
     prompt |-> None, spoken |-> <<>>, goodbye |-> None, hangup |-> FALSE,
     kind |-> "none", ret |-> None]

(* the run r of a copy after one more pass of its  while True  loop *)
copy_ask(copy, r, q, speech, tts_prompt, tts_farewell, r_sent, r_fup, r_val, r_clar) ==
    IF r.pc # "ask" THEN r
    ELSE LET t == ask_question(copy, q, r.clarification_mode, r.smart_prompt,
                               recognize_from_file(speech), r_sent, r_fup, r_val, r_clar)
             s == ask_question_speech(t, speech, tts_prompt,
                                      IF t.goodbye = None THEN None ELSE tts_farewell)
         IN  [pc |-> IF s.kind = "clarify" THEN "ask" ELSE "returned",
              clarification_mode |-> s.clarification_mode,
              smart_prompt |-> s.smart_prompt,
              prompt |-> s.prompt, spoken |-> s.spoken, goodbye |-> s.goodbye,
              hangup |-> s.hangup, kind |-> s.kind, ret |-> s.ret]

(* the replies to is_followup_question that both copies of the helper read *)
(* the same way                                                            *)
SameFollowUpReplies ==
    {r \in FollowUpReplies : FollowUpOf["fastagi"][r] = FollowUpOf["helpers"][r]}

(***************************************************************************)
(* Speech input: HybridSTT.start_recognition (speech/hybrid.py) and        *)
(* stt.speech_to_text (speech/stt.py).                                     *)
(***************************************************************************)

(* silence_threshold = 1.5 seconds, polled every 0.3 seconds *)
SilencePolls == 5

(* evt.result.text of the recognizing and of the recognized callbacks *)
InterimTexts == {"good"}
FinalTexts == {"", "good morning", "team"}

(* HybridSTT.__init__: buffered_text = "", last_result_time = now.  quiet  *)
(* counts the polls of monitor_silence since last_result_time, up to       *)
(* SilencePolls; events counts the recognizer's callbacks, and finals is    *)
(* the sequence of non-empty final texts the recognizer has delivered.     *)
HybridStart ==
    [mode |-> "hybrid", pc |-> "sleep", buffered_text |-> "", quiet |-> 0,
     events |-> 0, finals |-> <<>>, result |-> None]

(* speech_to_text: the worker runs recognize_once, the caller waits in     *)
(* future.result(timeout)                                                  *)
OnceStart ==
    [mode |-> "once", pc |-> "waiting", buffered_text |-> "", quiet |-> 0,
     events |-> 0, finals |-> <<>>, result |-> None]

(* what recognize_once makes of the caller's speech *)
OnceResults == {NoMatch, Canceled, "Yes I am"}

(***************************************************************************)
(* The cleaners on their own: clean_llm_response (ai_helpers.py and        *)
(* fastagi_server.py, the same code) and clean_response (main.py and, in   *)
(* line, agi_main.py).                                                     *)
(***************************************************************************)

(* An LLM reply is made of at most three of these pieces: plain text,      *)
(* the framing tokens, and the two halves of one of them.                  *)
ReplyPieces ==
    {"Ok", " ", "<|im_", "end|>", "<|im_end|>", "<|im_start|>user<|im_sep|>",
     "<|im_start|>assistant<|im_sep|>"}

RawReplies ==
    {a \o b \o c : a \in ReplyPieces \cup {""}, b \in ReplyPieces \cup {""}, c \in ReplyPieces}

Cleaners == {"clean_llm_response", "clean_response"}

Clean(cleaner, response) ==
    IF cleaner = "clean_llm_response" THEN clean_llm_response(response)
    ELSE clean_response(response)

HasToken(text) == \E i \in DOMAIN LLMTokens : Contains(text, LLMTokens[i])

(***************************************************************************)
(* main.py: the scripted interview main_flow, with custom_check,           *)
(* interpret_candidate_response, refine_candidate_data and                 *)
(* save_candidate_info.  conversation_history only feeds the LLM prompts   *)
(* and is left out; the LLM's replies are inputs.                          *)
(***************************************************************************)
Step(prompt, variable, exit_on_no, llm_intent, check) ==
    [prompt |-> prompt, variable |-> variable, exit_on_no |-> exit_on_no,
     llm_intent |-> llm_intent, custom_check |-> check]

(* the prompts are cut after their first sentence *)
conversation_script == <<
    Step("Hi, this is Aisha from Maxicus, are you looking for a job?",
         "job_interest", TRUE, TRUE, None),
    Step("We have currently an opening for a customer care executive role.",
         "role_interest", TRUE, TRUE, "role_interest"),
    Step("Ok, let me explain the job role: as a customer care executive, you will support customers via chat and phone.",
         "comfort", TRUE, TRUE, None),
    Step("For which location would you like to apply?",
         "location", FALSE, FALSE, "location"),
    Step("May I know your qualification?",
         "qualification", FALSE, FALSE, "qualifications"),
    Step("Do you have any previous experience?",
         "experience", FALSE, FALSE, "experience"),
    Step("What are your salary expectations?",
         "salary_expectation", FALSE, FALSE, "expectation"),
    Step("Thanks, can I upload the provided information for review?",
         "upload_permission", TRUE, TRUE, None) >>

MainNoInputGoodbye == "No input received. Ending session. Goodbye!"
MainExitGoodbye == "Alright, thank you for your time. Goodbye!"
final_message ==
    "Ok! I have forwarded the provided information and you will soon get a call from our end. Have a great day ahead."

(* the corrective message of custom_check, cut after its first sentence *)
CheckMessage ==
    [role_interest |-> "This is the only position currently open.",
     location |-> "Our available options are Amritsar, Gurgaon, Kolkata, and Vadodara.",
     qualifications |-> "For this role, a minimum of a high school diploma is required, and a college degree may be preferred.",
     experience |-> "For this role, any relevant experience in customer service or communication is valuable.",
     expectation |-> "I'm not allowed to disclose detailed salary information for this position as that is determined internally."]

(* custom_check: (valid, message) from the LLM's analysis; the location    *)
(* check looks for "invalid", the others for "inappropriate"               *)
custom_check(check_type, analysis) ==
    LET cleaned == Lower(clean_response(analysis))
        word == IF check_type = "location" THEN "invalid" ELSE "inappropriate"
    IN  IF check_type \in DOMAIN CheckMessage /\ Contains(cleaned, word)
          THEN <<FALSE, CheckMessage[check_type]>>
          ELSE <<TRUE, "">>

(* interpret_candidate_response *)
interpret_candidate_response(analysis) ==
    IF Contains(Lower(clean_response(analysis)), "negative") THEN "negative" ELSE "positive"

(* what stt.speech_to_text returns for the first reply of a step and for   *)
(* the reply to a corrective message                                       *)
FirstReplies == {None, "Yes "}
RevisedReplies == {None, " Gurgaon"}

(* what query_llm returns to custom_check and to                           *)
(* interpret_candidate_response                                            *)
CheckReplies == {"appropriate", "Inappropriate", "invalid", Apology}
IntentReplies == {"positive", "<|im_start|>assistant<|im_sep|>Negative<|im_end|>", Apology}

CheckTypes == {conversation_script[i].custom_check : i \in DOMAIN conversation_script}

CustomCheckOf ==
    [c \in CheckTypes \ {None} |-> [r \in CheckReplies |-> custom_check(c, r)]]
IntentOf == [r \in IntentReplies |-> interpret_candidate_response(r)]
StripOf == [r \in (FirstReplies \cup RevisedReplies) \ {None} |-> Strip(r)]

(* What query_llm returns to refine_candidate_data, as json.loads sees it  *)
(* after cleaning: a JSON object, JSON that is not an object, or text that *)
(* is not JSON (the apology of a failed call among it).                    *)
RefineReplies ==
    {"<|im_start|>assistant<|im_sep|>{\"refined\": true}<|im_end|>", "[]", "\"Yes\"", Apology}

(* json.loads(refined_str), as far as the flow depends on it: the kind of  *)
(* value a text parses to, by its first character                          *)
json_kind(text) ==
    CASE Len(text) > 0 /\ SubSeq(text, 1, 1) = "{" -> "object"
      [] Len(text) > 0 /\ SubSeq(text, 1, 1) = "[" -> "array"
      [] Len(text) > 0 /\ SubSeq(text, 1, 1) = "\"" -> "string"
      [] OTHER -> "error"

(* the refined record the LLM makes of candidate_info: the same keys, the  *)
(* values rewritten                                                        *)
Refined(candidate_info) == [k \in DOMAIN candidate_info |-> "Refined"]

(* a Python value: its type and, for a dict, its items *)
Dict(items) == [type |-> "dict", items |-> items]
NoValue == [type |-> None, items |-> EmptyDict]

(* refine_candidate_data: json.loads of the cleaned reply, candidate_info  *)
(* itself when json.loads raises.  A value that is not a dict is returned  *)
(* as it is.                                                               *)
refine_candidate_data(candidate_info, response) ==
    LET kind == json_kind(clean_response(response))
    IN  CASE kind = "object" -> Dict(Refined(candidate_info))
          [] kind = "error" -> Dict(candidate_info)
          [] kind = "array" -> [type |-> "list", items |-> EmptyDict]
          [] OTHER -> [type |-> "str", items |-> EmptyDict]

RefinedOf(candidate_info) ==
    [r \in RefineReplies |-> refine_candidate_data(candidate_info, r)]

(* open(filename, mode="a") and the writes of save_candidate_info *)
StoreOutcomes == {"ok", "OSError"}

(* save_candidate_info: the rows written, or the exception raised (the    *)
(* file error, or candidate_info.keys() on a value that is no dict)        *)
save_candidate_info(candidate_info, store) ==
    IF store = "OSError" THEN [raised |-> "OSError", rows |-> <<>>]
    ELSE IF candidate_info.type # "dict" THEN [raised |-> "AttributeError", rows |-> <<>>]
    ELSE [raised |-> None, rows |-> <<candidate_info.items>>]

(* main_flow at its start.  last holds what the last step did: the texts   *)
(* spoken, the replies received, the helpers called; listens counts the    *)
(* calls of stt.speech_to_text so far.                                     *)
NoStep == [variable |-> None, spoken |-> <<>>, replies |-> <<>>, calls |-> <<>>]

MainStart ==
    [step |-> 0, pc |-> "loop", candidate_info |-> EmptyDict, last |-> NoStep,
     listens |-> 0,
     outcome |-> None, refined |-> NoValue, store |-> None, saved |-> <<>>,
     raised |-> None, logged |-> FALSE]

(* main_step, except that the revised reply is checked again with the     *)
(* same verdict and, when it fails, a second corrective message is spoken  *)
(* and a third reply awaited                                               *)
main_step_rechecking(step, first, analysis, revised, intent_reply) ==
    LET asked1 == [NoStep EXCEPT !.variable = step.variable,
                                 !.spoken = <<step.prompt>>,
                                 !.replies = <<first>>]
        no_input(l) == [last |-> [l EXCEPT !.spoken = @ \o <<MainNoInputGoodbye>>],
                        kind |-> "no_input", value |-> None]
        judge(l, response) ==
            IF step.exit_on_no /\ step.llm_intent
              THEN LET called == [l EXCEPT !.calls = @ \o <<"interpret_candidate_response">>]
                   IN  IF IntentOf[intent_reply] = "negative"
                         THEN [last |-> [called EXCEPT !.spoken = @ \o <<MainExitGoodbye>>],
                               kind |-> "declined", value |-> None]
                         ELSE [last |-> called, kind |-> "stored", value |-> StripOf[response]]
              ELSE [last |-> l, kind |-> "stored", value |-> StripOf[response]]
    IN  IF first = None THEN no_input(asked1)
        ELSE IF step.custom_check # None
          THEN LET checked == [asked1 EXCEPT !.calls = <<"custom_check">>]
                   verdict == CustomCheckOf[step.custom_check][analysis]
               IN  IF verdict[1] THEN judge(checked, first)
                   ELSE LET asked3 == [checked EXCEPT
                                         !.spoken = @ \o <<verdict[2], verdict[2]>>,
                                         !.replies = @ \o <<revised, revised>>,
                                         !.calls = @ \o <<"custom_check">>]
                        IN  IF revised = None THEN no_input(asked3)
                            ELSE judge(asked3, revised)
        ELSE judge(asked1, first)

(* One iteration of  for step in conversation_script.  The value is the    *)
(* record of the step and how it ended: "stored" with the value stored,    *)
(* "no_input" or "declined".                                               *)
main_step(step, first, analysis, revised, intent_reply) ==
    LET asked1 == [NoStep EXCEPT !.variable = step.variable,
                                 !.spoken = <<step.prompt>>,
                                 !.replies = <<first>>]
        no_input(l) == [last |-> [l EXCEPT !.spoken = @ \o <<MainNoInputGoodbye>>],
                        kind |-> "no_input", value |-> None]
        judge(l, response) ==
            IF step.exit_on_no /\ step.llm_intent
              THEN LET called == [l EXCEPT !.calls = @ \o <<"interpret_candidate_response">>]
                   IN  IF IntentOf[intent_reply] = "negative"
                         THEN [last |-> [called EXCEPT !.spoken = @ \o <<MainExitGoodbye>>],
                               kind |-> "declined", value |-> None]
                         ELSE [last |-> called, kind |-> "stored", value |-> StripOf[response]]
              ELSE [last |-> l, kind |-> "stored", value |-> StripOf[response]]
    IN  IF first = None THEN no_input(asked1)
        ELSE IF step.custom_check # None
          THEN LET checked == [asked1 EXCEPT !.calls = <<"custom_check">>]
                   verdict == CustomCheckOf[step.custom_check][analysis]
               IN  IF verdict[1] THEN judge(checked, first)
                   ELSE LET asked2 == [checked EXCEPT !.spoken = @ \o <<verdict[2]>>,
                                                      !.replies = @ \o <<revised>>]
                        IN  IF revised = None THEN no_input(asked2)
                            ELSE judge(asked2, revised)
        ELSE judge(asked1, first)

(***************************************************************************)
(* llm_client.query_llm on a conversation history: a list of entries with  *)
(* a role and a content, as agi_main.py and the helpers build it.          *)
(***************************************************************************)
(* msg.get("role"): None when the entry has no role *)
Roles == {"system", "user", "assistant", None}
Contents == {"a", "b"}
Entries == [role : Roles, content : Contents]

SystemMessage(content) == [type |-> "SystemMessage", content |-> content]
UserMessage(content) == [type |-> "UserMessage", content |-> content]

(* query_llm_messages, except that every entry that is not a system entry  *)
(* is forwarded as a user message                                          *)
RECURSIVE query_llm_messages_forwarding_all(_)
query_llm_messages_forwarding_all(conversation_history) ==
    IF conversation_history = <<>> THEN <<>>
    ELSE LET msg == Head(conversation_history)
             rest == query_llm_messages_forwarding_all(Tail(conversation_history))
         IN  IF msg.role = "system" THEN <<SystemMessage(msg.content)>> \o rest
             ELSE <<UserMessage(msg.content)>> \o rest

(* the loop of query_llm that builds messages *)
RECURSIVE query_llm_messages(_)
query_llm_messages(conversation_history) ==
    IF conversation_history = <<>> THEN <<>>
    ELSE LET msg == Head(conversation_history)
             rest == query_llm_messages(Tail(conversation_history))
         IN  IF msg.role = "system" THEN <<SystemMessage(msg.content)>> \o rest
             ELSE IF msg.role = "user" THEN <<UserMessage(msg.content)>> \o rest
             ELSE rest

(* client.complete(...): the generated text, or an exception *)
Raises == "<raises>"
BackendOutcomes == {"It is on the way.", Raises}

(* query_llm, except that an exception of client.complete propagates *)
query_llm_raising(conversation_history, outcome) ==
    [messages |-> query_llm_messages(conversation_history),
     returned |-> IF outcome = Raises THEN None ELSE outcome,
     raised |-> IF outcome = Raises THEN "Exception" ELSE None]

(* query_llm: the messages sent and the text returned *)
query_llm(conversation_history, outcome) ==
    [messages |-> query_llm_messages(conversation_history),
     returned |-> IF outcome = Raises THEN Apology ELSE outcome,
     raised |-> None]

(* a caller of query_llm: the history it has built, and the last call *)
HistoryStart ==
    [pc |-> "build", entries |-> <<>>, messages |-> <<>>, outcome |-> None,
     returned |-> None, raised |-> None]

-----------------------------------------------------------------------------
(* Bounds.                                                                 *)

(* fup_checks counts up to MaxChecks and stays there *)
MaxChecks == 3
(* hangups counts up to MaxHangups and stays there *)
MaxHangups == 2
(* the recognizer makes at most MaxEvents callbacks during one listen *)
MaxEvents == 3
(* the entries of a conversation history *)
MaxHistory == 3

-----------------------------------------------------------------------------
(* State.                                                                  *)
(*   engine               which flow engine runs the call                  *)
(*   questions            its question list                                *)
(*   current_index        position in the list (the for loop's position    *)
(*                        in agi_main_flow_custom)                         *)
(*   candidate_responses  answers recorded (candidate_details)             *)
(*   clarification_mode, smart_prompt   locals of ask_question             *)
(*   pc                   "loop": at the head of the question loop;        *)
(*                        "ask": at the head of ask_question's while loop; *)
(*                        "idle": process_input may be called;             *)
(*                        "done": the flow has returned                    *)
(*   turn                 what the last pass of ask_question, or the last  *)
(*                        process_input call, did                          *)
(*   hangups              agi.hangup() calls so far                        *)
(*   asked                keys of the questions put to the caller          *)
(*   fup_checks           is_followup_question calls for the current       *)
(*                        question                                         *)
(*   result               the dict returned by run_conversation or by the  *)
(*                        last process_input call                          *)
(*   final_played         the final message was synthesized and played     *)
(*                        (its synthesis was not canceled)                 *)
(*   files                agi_main.py: the sounds directory                *)
(*   sess                 agi_main.py: the concurrent calls                *)
(*   twin                 two runs of agi_main_flow_custom side by side    *)
(*   script               main.py: the scripted interview of main_flow     *)
(*   listen               a speech-input call: HybridSTT.start_recognition *)
(*                        or stt.speech_to_text                            *)
(*   history              the conversation history handed to query_llm,    *)
(*                        and what query_llm sent to the backend           *)
(*   reply                an LLM reply and what the cleaners make of it    *)

Engines == {"seq", "run", "proc", "utils", "agi", "twin", "listen", "clean",
            "main", "history", "copies"}

(* values of files and sess while a question-flow engine runs *)
NoFiles == <<>>
NoSessions == <<>>

(* value of twin, script, listen, history and reply while another engine   *)
(* runs                                                                    *)
NotRunning == <<>>

NoResult == [action |-> None, prompt |-> None]

Min(a, b) == IF a < b THEN a ELSE b

CurrentQuestion == questions[current_index + 1]

Init ==
    /\ engine \in Engines
    /\ questions \in
         CASE engine = "seq" -> {HardQuestions}
           [] engine \in {"utils", "copies"} ->
                UNION {{<<l[i]>> : i \in DOMAIN l} : l \in QuestionLists}
           [] engine = "proc" -> {SampleQuestions, OptionQuestions, MalformedQuestions}
           [] engine \in {"agi", "listen", "clean", "main", "history"} -> {<<>>}
           [] engine = "twin" -> {HardQuestions}
           [] OTHER -> QuestionLists
    /\ current_index = 0
    /\ candidate_responses = EmptyDict
    /\ clarification_mode = FALSE
    /\ smart_prompt = ""
    /\ pc = CASE engine = "proc" -> "idle" [] engine = "utils" -> "ask"
              [] engine \in {"agi", "twin", "listen", "clean", "main", "history",
                              "copies"} -> engine
              [] OTHER -> "loop"
    /\ turn = NoTurn
    /\ hangups = 0
    /\ asked = {}
    /\ fup_checks = 0
    /\ result = NoResult
    /\ final_played = FALSE
    /\ files = IF engine = "agi" THEN [n \in FileNames |-> NoFile] ELSE NoFiles
    /\ sess = IF engine = "agi" THEN [s \in Sessions |-> AgiStart] ELSE NoSessions
    /\ twin = CASE engine = "twin" -> [a |-> TwinStart, b |-> TwinStart]
                [] engine = "copies" -> [a |-> CopyStart, b |-> CopyStart]
                [] OTHER -> NotRunning
    /\ script = IF engine = "main" THEN MainStart ELSE NotRunning
    /\ listen \in IF engine = "listen" THEN {HybridStart, OnceStart} ELSE {NotRunning}
    /\ history = IF engine = "history" THEN HistoryStart ELSE NotRunning
    /\ reply \in IF engine = "clean"
                  THEN {[raw |-> r, cleaner |-> None, passes |-> 0, text |-> None,
                         again |-> None] : r \in RawReplies}
                  ELSE {NotRunning}

(* agi_main_flow_custom: the question is skipped *)
SkipQuestion ==
    /\ pc = "loop" /\ engine = "seq"
    /\ current_index < Len(questions)
    /\ Skipped(CurrentQuestion, candidate_responses)
    /\ current_index' = current_index + 1
    /\ UNCHANGED <<engine, questions, candidate_responses, clarification_mode,
                   smart_prompt, pc, turn, hangups, asked, fup_checks, result,
                   final_played>>
    /\ UNCHANGED other_vars

(* agi_main_flow_custom and run_conversation: ask_question is called *)
EnterQuestion ==
    /\ pc = "loop" /\ engine \in {"seq", "run"}
    /\ current_index < Len(questions)
    /\ engine = "seq" => ~Skipped(CurrentQuestion, candidate_responses)
    /\ pc' = "ask"
    /\ clarification_mode' = FALSE
    /\ smart_prompt' = ""
    /\ fup_checks' = 0
    /\ UNCHANGED <<engine, questions, current_index, candidate_responses, turn,
                   hangups, asked, result, final_played>>
    /\ UNCHANGED other_vars

(* agi_main_flow_custom after the loop: final message, hangup *)
FinishMainFlow ==
    /\ pc = "loop" /\ engine = "seq"
    /\ current_index = Len(questions)
    /\ \E tts_final \in TTSOutcomes : final_played' = (tts_final = "ok")
    /\ hangups' = Min(hangups + 1, MaxHangups)
    /\ pc' = "done"
    /\ UNCHANGED <<engine, questions, current_index, candidate_responses,
                   clarification_mode, smart_prompt, turn, asked, fup_checks, result>>
    /\ UNCHANGED other_vars

(* run_conversation after the loop: the final message is returned *)
FinishRunConversation ==
    /\ pc = "loop" /\ engine = "run"
    /\ current_index >= Len(questions)
    /\ result' = [action |-> "complete", prompt |-> final_msg]
    /\ pc' = "done"
    /\ UNCHANGED <<engine, questions, current_index, candidate_responses,
                   clarification_mode, smart_prompt, turn, hangups, asked,
                   fup_checks, final_played>>
    /\ UNCHANGED other_vars

CountCalls(calls, name) == Cardinality({i \in 1..Len(calls) : calls[i] = name})

(* What the caller of ask_question does with the value returned.           *)
(* run_conversation: return {"action": "end", "prompt":                    *)
(*   question.get("exit_message", "Goodbye")} when it is None.             *)
run_conversation_end(q) == [action |-> "end", prompt |-> Get(q.exit_message, "Goodbye")]

(* The state after one pass t of ask_question on the current question. *)
Pass(t) ==
    /\ turn' = t
    /\ asked' = asked \cup {t.key}
    /\ hangups' = Min(hangups + (IF t.hangup THEN 1 ELSE 0), MaxHangups)
    /\ fup_checks' = Min(fup_checks + CountCalls(t.calls, "is_followup_question"), MaxChecks)
    /\ clarification_mode' = t.clarification_mode
    /\ smart_prompt' = t.smart_prompt
    /\ IF t.kind = "clarify"
         THEN pc' = "ask" /\ UNCHANGED <<current_index, candidate_responses, result>>
       ELSE IF t.kind = "answer" /\ engine \in {"seq", "run"}
         THEN /\ candidate_responses' = Put(candidate_responses, t.key, t.ret)
              /\ current_index' = current_index + 1
              /\ pc' = "loop"
              /\ UNCHANGED result
       ELSE /\ pc' = "done"
            /\ result' = IF engine = "run" THEN run_conversation_end(CurrentQuestion)
                         ELSE result
            /\ UNCHANGED <<current_index, candidate_responses>>
    /\ UNCHANGED <<engine, questions, final_played>>
    /\ UNCHANGED other_vars

Copy == IF engine = "utils" THEN "utils" ELSE "fastagi"

(* nothing was recognized *)
AskNoInput ==
    /\ pc = "ask"
    /\ \E speech \in SpeechResults, tts_prompt \in TTSOutcomes :
         /\ CleanResponseOf[recognize_from_file(speech)] = ""
         /\ \E t \in {ask_question(Copy, CurrentQuestion, clarification_mode,
                                   smart_prompt, recognize_from_file(speech),
                                   None, None, None, None)} :
              \E tts_farewell \in FarewellOutcomes(t) :
                 Pass(ask_question_speech(t, speech, tts_prompt, tts_farewell))

(* a reply to a yes/no question *)
AskBinary ==
    /\ pc = "ask"
    /\ IsBinaryOf[CurrentQuestion]
    /\ \E speech \in SpeechResults, tts_prompt \in TTSOutcomes, r_sent \in SentimentReplies :
         /\ CleanResponseOf[recognize_from_file(speech)] # ""
         /\ \E t \in {ask_question(Copy, CurrentQuestion, clarification_mode,
                                   smart_prompt, recognize_from_file(speech),
                                   r_sent, None, None, None)} :
              \E tts_farewell \in FarewellOutcomes(t) :
                 Pass(ask_question_speech(t, speech, tts_prompt, tts_farewell))

(* the first reply to any other question *)
AskOptions ==
    /\ pc = "ask"
    /\ ~IsBinaryOf[CurrentQuestion]
    /\ ~clarification_mode
    /\ \E speech \in SpeechResults, tts_prompt \in TTSOutcomes, r_fup \in FollowUpReplies,
          r_val \in ValidateRepliesOf[CurrentQuestion], r_clar \in ClarifyReplies :
         /\ CleanResponseOf[recognize_from_file(speech)] # ""
         /\ \E t \in {ask_question(Copy, CurrentQuestion, clarification_mode,
                                   smart_prompt, recognize_from_file(speech),
                                   None, r_fup, r_val, r_clar)} :
              \E tts_farewell \in FarewellOutcomes(t) :
                 Pass(ask_question_speech(t, speech, tts_prompt, tts_farewell))

(* a reply to the clarification of such a question *)
AskOptionsClarified ==
    /\ pc = "ask"
    /\ ~IsBinaryOf[CurrentQuestion]
    /\ clarification_mode
    /\ \E speech \in SpeechResults, tts_prompt \in TTSOutcomes,
          r_val \in ValidateRepliesOf[CurrentQuestion], r_clar \in ClarifyReplies :
         /\ CleanResponseOf[recognize_from_file(speech)] # ""
         /\ \E t \in {ask_question(Copy, CurrentQuestion, clarification_mode,
                                   smart_prompt, recognize_from_file(speech),
                                   None, None, r_val, r_clar)} :
              \E tts_farewell \in FarewellOutcomes(t) :
                 Pass(ask_question_speech(t, speech, tts_prompt, tts_farewell))

(* Processed, except that a call that returned "clarify" moves on to the  *)
(* next question                                                           *)
Processed_advancing(o) ==
    /\ turn' = o.turn
    /\ result' = [action |-> o.action, prompt |-> o.prompt]
    /\ current_index' = o.current_index + (IF o.action = "clarify" THEN 1 ELSE 0)
    /\ candidate_responses' = o.candidate_responses
    /\ asked' = IF o.turn.key = None THEN asked ELSE asked \cup {o.turn.key}
    /\ fup_checks' = 0
    /\ UNCHANGED <<engine, questions, clarification_mode, smart_prompt, pc, hangups,
                   final_played>>
    /\ UNCHANGED other_vars

(* Processed, except that a call that returned "end" moves on to the next  *)
(* question                                                                *)
Processed_advancing_on_end(o) ==
    /\ turn' = o.turn
    /\ result' = [action |-> o.action, prompt |-> o.prompt]
    /\ current_index' = o.current_index + (IF o.action = "end" THEN 1 ELSE 0)
    /\ candidate_responses' = o.candidate_responses
    /\ asked' = IF o.turn.key = None THEN asked ELSE asked \cup {o.turn.key}
    /\ fup_checks' = 0
    /\ UNCHANGED <<engine, questions, clarification_mode, smart_prompt, pc, hangups,
                   final_played>>
    /\ UNCHANGED other_vars

(* The state after a process_input call that returned o. *)
Processed(o) ==
    /\ turn' = o.turn
    /\ result' = [action |-> o.action, prompt |-> o.prompt]
    /\ current_index' = o.current_index
    /\ candidate_responses' = o.candidate_responses
    /\ asked' = IF o.turn.key = None THEN asked ELSE asked \cup {o.turn.key}
    /\ fup_checks' =
         IF o.current_index # current_index THEN 0
         ELSE Min(fup_checks + CountCalls(o.turn.calls, "is_followup_question"), MaxChecks)
    /\ UNCHANGED <<engine, questions, clarification_mode, smart_prompt, pc, hangups,
                   final_played>>
    /\ UNCHANGED other_vars

(* process_input when no question is left *)
ProcessInputComplete ==
    /\ pc = "idle"
    /\ current_index >= Len(questions)
    /\ \E user_input \in UserInputs :
         \E o \in {process_input(questions, current_index, candidate_responses,
                                 user_input, None, None, None, None)} : Processed(o)

(* process_input on a yes/no question *)
ProcessInputBinary ==
    /\ pc = "idle"
    /\ current_index < Len(questions)
    /\ IsBinaryOf[CurrentQuestion]
    /\ \E user_input \in UserInputs, r_sent \in SentimentReplies :
         \E o \in {process_input(questions, current_index, candidate_responses,
                                 user_input, r_sent, None, None, None)} : Processed(o)

(* process_input on any other question *)
ProcessInputOptions ==
    /\ pc = "idle"
    /\ current_index < Len(questions)
    /\ ~IsBinaryOf[CurrentQuestion]
    /\ \E user_input \in UserInputs, r_fup \in FollowUpReplies,
          r_val \in ValidateRepliesOf[CurrentQuestion], r_clar \in ClarifyReplies :
         \E o \in {process_input(questions, current_index, candidate_responses,
                                 user_input, None, r_fup, r_val, r_clar)} : Processed(o)

(* tts.generate_tts_file(text, path): writes the file, or prints the       *)
(* cancellation and returns without writing                                *)
AgiSynthesize(s) ==
    /\ engine = "agi"
    /\ sess[s].pc = "tts"
    /\ \E outcome \in TTSOutcomes :
         files' = IF outcome = "ok"
                  THEN [files EXCEPT ![sess[s].file] = [text |-> sess[s].text, by |-> s]]
                  ELSE files
    /\ sess' = [sess EXCEPT ![s].pc = "play"]
    /\ UNCHANGED not_agi

(* agi.stream_file(name): plays whatever the file holds now; after a       *)
(* goodbye the loop is left and agi.hangup() ends the call                 *)
AgiStream(s) ==
    /\ engine = "agi"
    /\ sess[s].pc = "play"
    /\ sess' = [sess EXCEPT ![s].heard = files[sess[s].file],
                            ![s].pc = IF sess[s].then = "hangup" THEN "done" ELSE "record",
                            ![s].hungup = (sess[s].then = "hangup")]
    /\ UNCHANGED <<files, not_agi>>

(* agi.record_file(input_filename, ...) *)
AgiRecord(s) ==
    /\ engine = "agi"
    /\ sess[s].pc = "record"
    /\ \E speech \in AgiSpeech :
         files' = [files EXCEPT ![input_filename(s)] = [text |-> speech, by |-> s]]
    /\ sess' = [sess EXCEPT ![s].pc = "recognize"]
    /\ UNCHANGED not_agi

(* AgiRecognize, except that the LLM is queried before the exit keywords   *)
(* are looked for                                                          *)
AgiRecognize_llm_first(s) ==
    /\ engine = "agi"
    /\ sess[s].pc = "recognize"
    /\ \E user_input \in {recognize_from_file(files[input_filename(s)].text)} :
         IF user_input = None
         THEN sess' = [sess EXCEPT ![s] = [@ EXCEPT !.pc = "tts", !.text = NoInputGoodbye,
                                  !.file = "goodbye", !.then = "hangup",
                                  !.user_input = None, !.calls = <<>>]]
         ELSE \E ai_response \in AgiReplies :
                IF IsExitOf[user_input]
                THEN sess' = [sess EXCEPT ![s] = [@ EXCEPT !.pc = "tts",
                                  !.text = AgiExitGoodbye,
                                  !.file = "goodbye", !.then = "hangup",
                                  !.user_input = user_input,
                                  !.calls = <<"extract_order_number", "query_llm">>]]
                ELSE sess' = [sess EXCEPT ![s] = [@ EXCEPT !.pc = "tts",
                                  !.text = CleanReplyOf[ai_response],
                                  !.file = response_filename(s), !.then = "record",
                                  !.user_input = user_input,
                                  !.calls = <<"extract_order_number", "query_llm">>]]
    /\ UNCHANGED <<files, not_agi>>

(* user_input = stt.recognize_from_file(input_audio_path) and the rest of  *)
(* the loop body up to the next synthesis                                  *)
AgiRecognize(s) ==
    /\ engine = "agi"
    /\ sess[s].pc = "recognize"
    /\ \E user_input \in {recognize_from_file(files[input_filename(s)].text)} :
         IF user_input = None
         THEN sess' = [sess EXCEPT ![s] = [@ EXCEPT !.pc = "tts", !.text = NoInputGoodbye,
                                  !.file = "goodbye", !.then = "hangup",
                                  !.user_input = None, !.calls = <<>>]]
         ELSE IF IsExitOf[user_input]
         THEN sess' = [sess EXCEPT ![s] = [@ EXCEPT !.pc = "tts", !.text = AgiExitGoodbye,
                                  !.file = "goodbye", !.then = "hangup",
                                  !.user_input = user_input, !.calls = <<>>]]
         ELSE \E ai_response \in AgiReplies :
                sess' = [sess EXCEPT ![s] = [@ EXCEPT !.pc = "tts",
                                  !.text = CleanReplyOf[ai_response],
                                  !.file = response_filename(s), !.then = "record",
                                  !.user_input = user_input,
                                  !.calls = <<"extract_order_number", "query_llm">>]]
    /\ UNCHANGED <<files, not_agi>>

(* both runs are at the head of the question loop *)
TwinLoop ==
    /\ engine = "twin"
    /\ twin.a.pc = "loop"
    /\ twin' = [a |-> twin_loop(questions, twin.a), b |-> twin_loop(questions, twin.b)]
    /\ UNCHANGED not_twin

(* the run r after a pass of ask_question with the given collaborator      *)
(* results                                                                 *)
twin_ask(r, speech, tts_prompt, tts_farewell, r_sent, r_fup, r_val, r_clar) ==
    IF r.pc # "ask" THEN r
    ELSE LET t == ask_question("fastagi", questions[r.current_index + 1],
                               r.clarification_mode, r.smart_prompt,
                               recognize_from_file(speech), r_sent, r_fup, r_val, r_clar)
         IN  twin_pass(r, ask_question_speech(t, speech, tts_prompt,
                              IF t.goodbye = None THEN None ELSE tts_farewell))

(* Both runs make a pass of ask_question.  They get the same recognized    *)
(* text and the same helper results; the results of the synthesizer and    *)
(* the recognizer's reason differ between them.                            *)
TwinAsk ==
    /\ engine = "twin"
    /\ twin.a.pc = "ask"
    /\ LET q == questions[twin.a.current_index + 1]
       IN  \E speech \in SpeechResults, tts_prompt \in TTSOutcomes, tts_farewell \in TTSOutcomes,
              r_sent \in (IF IsBinaryOf[q] THEN SentimentReplies ELSE {"positive"}),
              r_fup \in (IF IsBinaryOf[q] \/ twin.a.clarification_mode
                           THEN {"no"} ELSE FollowUpReplies),
              r_val \in (IF IsBinaryOf[q] THEN {"none"} ELSE ValidateRepliesOf[q]),
              r_clar \in (IF IsBinaryOf[q] THEN {Apology} ELSE ClarifyReplies) :
             twin' = [a |-> twin_ask(twin.a, speech, tts_prompt, tts_farewell,
                                     r_sent, r_fup, r_val, r_clar),
                      b |-> twin_ask(twin.b, OtherOutcome(speech),
                                     OtherOutcome(tts_prompt), OtherOutcome(tts_farewell),
                                     r_sent, r_fup, r_val, r_clar)]
    /\ UNCHANGED not_twin

(* monitor_silence: await asyncio.sleep(0.3) *)
ListenSleep ==
    /\ engine = "listen"
    /\ listen.mode = "hybrid" /\ listen.pc = "sleep"
    /\ listen' = [listen EXCEPT !.pc = "check", !.quiet = Min(@ + 1, SilencePolls)]
    /\ UNCHANGED not_listen

(* monitor_silence: if time.time() - self.last_result_time >=              *)
(* self.silence_threshold and self.buffered_text.strip(): break; then      *)
(* start_recognition stops the recognizer and returns the stripped buffer  *)
ListenCheck ==
    /\ engine = "listen"
    /\ listen.mode = "hybrid" /\ listen.pc = "check"
    /\ listen' = IF listen.quiet >= SilencePolls /\ Strip(listen.buffered_text) # ""
                   THEN [listen EXCEPT !.pc = "returned",
                                       !.result = Strip(listen.buffered_text)]
                   ELSE [listen EXCEPT !.pc = "sleep"]
    /\ UNCHANGED not_listen

(* _recognizing_cb: the buffer is replaced by the interim text *)
ListenRecognizing ==
    /\ engine = "listen"
    /\ listen.mode = "hybrid" /\ listen.pc \in {"sleep", "check"}
    /\ listen.events < MaxEvents
    /\ \E interim \in InterimTexts :
         listen' = [listen EXCEPT !.buffered_text = interim, !.quiet = 0,
                                  !.events = @ + 1]
    /\ UNCHANGED not_listen

(* _recognized_cb: a non-empty final text is appended after a space *)
ListenRecognized ==
    /\ engine = "listen"
    /\ listen.mode = "hybrid" /\ listen.pc \in {"sleep", "check"}
    /\ listen.events < MaxEvents
    /\ \E final \in FinalTexts :
         listen' = [listen EXCEPT
                      !.buffered_text = IF final # "" THEN @ \o " " \o final ELSE @,
                      !.finals = IF final # "" THEN Append(@, final) ELSE @,
                      !.quiet = 0,
                      !.events = @ + 1]
    /\ UNCHANGED not_listen

(* speech_to_text: future.result(timeout) raises TimeoutError; the         *)
(* function is about to return None and leaves the  with  block, whose     *)
(* exit waits for the worker (ThreadPoolExecutor.shutdown(wait=True))      *)
OnceTimeout ==
    /\ engine = "listen"
    /\ listen.mode = "once" /\ listen.pc = "waiting"
    /\ listen' = [listen EXCEPT !.pc = "timed_out"]
    /\ UNCHANGED not_listen

(* speech_to_text: recognize_once returns in the worker; the caller gets   *)
(* its value, or None if the timeout had expired                           *)
OnceRecognized ==
    /\ engine = "listen"
    /\ listen.mode = "once" /\ listen.pc \in {"waiting", "timed_out"}
    /\ \E speech \in OnceResults :
         listen' = [listen EXCEPT
                      !.pc = "returned",
                      !.result = IF listen.pc = "timed_out" THEN None
                                 ELSE recognize_from_file(speech)]
    /\ UNCHANGED not_listen

(* a helper cleans the reply it got from query_llm *)
CleanReply ==
    /\ engine = "clean"
    /\ reply.passes = 0
    /\ \E cleaner \in Cleaners :
         reply' = [reply EXCEPT !.cleaner = cleaner, !.passes = 1,
                                !.text = Clean(cleaner, reply.raw)]
    /\ UNCHANGED not_reply

(* the cleaned text is cleaned once more *)
CleanAgain ==
    /\ engine = "clean"
    /\ reply.passes = 1
    /\ reply' = [reply EXCEPT !.passes = 2, !.again = Clean(reply.cleaner, reply.text)]
    /\ UNCHANGED not_reply

(* main_flow: one script step *)
MainStep ==
    /\ engine = "main"
    /\ script.pc = "loop"
    /\ script.step < Len(conversation_script)
    /\ LET step == conversation_script[script.step + 1]
       IN  \E first \in FirstReplies,
              analysis \in (IF step.custom_check = None THEN {"appropriate"} ELSE CheckReplies),
              revised \in (IF step.custom_check = None THEN {None} ELSE RevisedReplies),
              intent_reply \in (IF step.exit_on_no /\ step.llm_intent
                                  THEN IntentReplies ELSE {"positive"}) :
             \E o \in {main_step(step, first, analysis, revised, intent_reply)} :
                script' = IF o.kind = "stored"
                            THEN [script EXCEPT
                                    !.last = o.last,
                                    !.listens = @ + Len(o.last.replies),
                                    !.candidate_info = Put(@, step.variable, o.value),
                                    !.step = @ + 1]
                            ELSE [script EXCEPT !.last = o.last, !.pc = "done",
                                                !.listens = @ + Len(o.last.replies),
                                                !.outcome = o.kind]
    /\ UNCHANGED not_script

(* MainFinish, except that the data collected so far is saved whenever the *)
(* run is at the head of the loop                                          *)
MainFinish_saving_early ==
    /\ engine = "main"
    /\ script.pc = "loop"
    /\ \E response \in RefineReplies, store \in StoreOutcomes :
         \E refined \in {RefinedOf(script.candidate_info)[response]} :
            \E saved \in {save_candidate_info(refined, store)} :
               script' = [script EXCEPT
                            !.last = [NoStep EXCEPT
                                        !.spoken = <<final_message>>,
                                        !.calls = <<"refine_candidate_data",
                                                    "save_candidate_info">>],
                            !.pc = "done",
                            !.refined = refined,
                            !.store = store,
                            !.saved = saved.rows,
                            !.raised = saved.raised,
                            !.outcome = IF saved.raised = None THEN "completed"
                                        ELSE "raised"]
    /\ UNCHANGED not_script

(* main_flow after the loop: the final message is spoken, the data refined *)
(* and saved                                                               *)
MainFinish ==
    /\ engine = "main"
    /\ script.pc = "loop"
    /\ script.step = Len(conversation_script)
    /\ \E response \in RefineReplies, store \in StoreOutcomes :
         \E refined \in {RefinedOf(script.candidate_info)[response]} :
            \E saved \in {save_candidate_info(refined, store)} :
               script' = [script EXCEPT
                            !.last = [NoStep EXCEPT
                                        !.spoken = <<final_message>>,
                                        !.calls = <<"refine_candidate_data",
                                                    "save_candidate_info">>],
                            !.pc = "done",
                            !.refined = refined,
                            !.store = store,
                            !.saved = saved.rows,
                            !.raised = saved.raised,
                            !.outcome = IF saved.raised = None THEN "completed"
                                        ELSE "raised"]
    /\ UNCHANGED not_script

(* the caller appends an entry to conversation_history *)
HistoryAppend ==
    /\ engine = "history"
    /\ history.pc = "build"
    /\ Len(history.entries) < MaxHistory
    /\ \E entry \in Entries :
         history' = [history EXCEPT !.entries = Append(@, entry)]
    /\ UNCHANGED not_history

(* query_llm(conversation_history) *)
QueryLlm ==
    /\ engine = "history"
    /\ history.pc = "build"
    /\ \E outcome \in BackendOutcomes :
         \E o \in {query_llm(history.entries, outcome)} :
            history' = [history EXCEPT !.pc = "returned",
                                       !.messages = o.messages,
                                       !.outcome = outcome,
                                       !.returned = o.returned,
                                       !.raised = o.raised]
    /\ UNCHANGED not_history

(* Both copies make a pass of ask_question on the same question, with the  *)
(* same recognized text, the same synthesizer results and the same helper  *)
(* results.                                                                *)
CopiesAsk ==
    /\ engine = "copies"
    /\ twin.a.pc = "ask" \/ twin.b.pc = "ask"
    /\ LET q == questions[1]
       IN  \E speech \in SpeechResults, tts_prompt \in TTSOutcomes, tts_farewell \in TTSOutcomes,
              r_sent \in (IF IsBinaryOf[q] THEN SentimentReplies ELSE {"positive"}),
              r_fup \in (IF IsBinaryOf[q] THEN {"no"} ELSE SameFollowUpReplies),
              r_val \in (IF IsBinaryOf[q] THEN {"none"} ELSE ValidateRepliesOf[q]),
              r_clar \in (IF IsBinaryOf[q] THEN {Apology} ELSE ClarifyReplies) :
             twin' = [a |-> copy_ask("fastagi", twin.a, q, speech, tts_prompt, tts_farewell,
                                     r_sent, r_fup, r_val, r_clar),
                      b |-> copy_ask("utils", twin.b, q, speech, tts_prompt, tts_farewell,
                                     r_sent, r_fup, r_val, r_clar)]
    /\ UNCHANGED not_twin

Next ==
    \/ SkipQuestion
    \/ EnterQuestion
    \/ FinishMainFlow
    \/ FinishRunConversation
    \/ AskNoInput
    \/ AskBinary
    \/ AskOptions
    \/ AskOptionsClarified
    \/ ProcessInputComplete
    \/ ProcessInputBinary
    \/ ProcessInputOptions
    \/ \E s \in Sessions : AgiSynthesize(s)
    \/ \E s \in Sessions : AgiStream(s)
    \/ \E s \in Sessions : AgiRecord(s)
    \/ \E s \in Sessions : AgiRecognize(s)
    \/ TwinLoop
    \/ TwinAsk
    \/ ListenSleep
    \/ ListenCheck
    \/ ListenRecognizing
    \/ ListenRecognized
    \/ OnceTimeout
    \/ OnceRecognized
    \/ CleanReply
    \/ CleanAgain
    \/ MainStep
    \/ MainFinish
    \/ HistoryAppend
    \/ QueryLlm
    \/ CopiesAsk

Spec == Init /\ [][Next]_vars

(* The question flows on their own.  A flow is sequential code: it takes   *)
(* its next step while it has one.                                         *)
FlowInit == Init /\ engine \in {"seq", "run", "proc", "utils"}

FlowNext ==
    \/ SkipQuestion
    \/ EnterQuestion
    \/ FinishMainFlow
    \/ FinishRunConversation
    \/ AskNoInput
    \/ AskBinary
    \/ AskOptions
    \/ AskOptionsClarified
    \/ ProcessInputComplete
    \/ ProcessInputBinary
    \/ ProcessInputOptions

FairSpec == FlowInit /\ [][FlowNext]_vars /\ WF_vars(FlowNext)

(* main_flow on its own: sequential code that takes its next step while it *)
(* has one (every call it makes returns).                                  *)
MainInit == Init /\ engine = "main"

MainNext == MainStep \/ MainFinish

MainSpec == MainInit /\ [][MainNext]_vars /\ WF_vars(MainNext)

(* One speech-input call on its own.  The monitor task of start_recognition *)
(* keeps being scheduled by the event loop, and recognize_once comes back   *)
(* (the recognizer ends an utterance, or gives NoMatch after its own        *)
(* silence timeout); nothing obliges the caller to speak or the timeout of  *)
(* speech_to_text to expire first.                                          *)
ListenInit == Init /\ engine = "listen"

ListenNext ==
    \/ ListenSleep
    \/ ListenCheck
    \/ ListenRecognizing
    \/ ListenRecognized
    \/ OnceTimeout
    \/ OnceRecognized

ListenSpec ==
    /\ ListenInit
    /\ [][ListenNext]_vars
    /\ WF_vars(ListenSleep) /\ WF_vars(ListenCheck) /\ WF_vars(OnceRecognized)

-----------------------------------------------------------------------------
(* Properties.                                                             *)

(* the question the last pass (or process_input call) was about *)
TurnQuestion == questions[CHOOSE i \in DOMAIN questions : questions[i].key = turn.key]

OnQuestion == turn.kind # "none" /\ turn.key # None

Called(name) == InList(name, turn.calls)

(* The option the reply was matched to: "no" for a negative sentiment and  *)
(* "yes" for any other on a yes/no question, otherwise the output of the   *)
(* option classifier when it is one of the valid options; None when the    *)
(* reply was not matched.                                                  *)
MatchedOption ==
    IF Called("determine_sentiment")
      THEN IF turn.sentiment = "negative" THEN "no" ELSE "yes"
    ELSE IF Called("validate_option") /\ InList(turn.vtext, LowerOptionsOf[TurnQuestion])
      THEN turn.vtext
    ELSE None

MatchedExitTrigger ==
    /\ OnQuestion
    /\ MatchedOption # None
    /\ TurnQuestion.exit_if # None
    /\ MatchedOption = ExitIfOf[TurnQuestion]

(* the answer was recorded under the question's key and the engine went on *)
Recorded(option) ==
    /\ turn.kind = "answer"
    /\ turn.ret = option
    /\ engine # "utils" =>
         /\ turn.key \in DOMAIN candidate_responses
         /\ candidate_responses[turn.key] = option

(* C1: in the sequential flow and in process_input a matched answer ends   *)
(* the session only when it is the question's exit_if; any other matched   *)
(* answer, "no" to a yes/no question without exit_if included, is recorded *)
(* under the question's key and the engine goes on.                        *)
C1_ExitOnlyOnExitTrigger ==
    (engine \in {"seq", "proc"} /\ OnQuestion /\ MatchedOption # None) =>
        IF MatchedExitTrigger THEN turn.kind = "exit" ELSE Recorded(MatchedOption)

(* C2: on a yes/no question a reply of negative sentiment is treated as    *)
(* the answer "no" and any other as the answer "yes": it ends the call     *)
(* when that answer is the exit_if and is recorded otherwise (stated for   *)
(* the sequential flow).                                                   *)
C2_SentimentIsAnswer ==
    (engine = "seq" /\ OnQuestion /\ Called("determine_sentiment")) =>
        LET answer == IF turn.sentiment = "negative" THEN "no" ELSE "yes"
        IN  IF TurnQuestion.exit_if # None /\ answer = ExitIfOf[TurnQuestion]
              THEN turn.kind = "exit"
              ELSE Recorded(answer)

(* an option question got a reply that is not empty *)
OptionTurn == OnQuestion /\ ~IsBinaryOf[TurnQuestion] /\ turn.kind # "no_input"

Passed == {i \in DOMAIN questions : i <= current_index}

(* C5: in the three flow engines a question is put to the caller exactly   *)
(* when it has no condition or its condition holds on the answers          *)
(* collected; a skipped question is never asked and never a key of the     *)
(* answers.                                                                *)
C5_AskedIffCondition ==
    engine \in {"seq", "run", "proc"} =>
        /\ \A i \in DOMAIN questions :
             questions[i].key \in asked =>
                ~Skipped(questions[i], candidate_responses)
        /\ \A i \in Passed :
             ~Skipped(questions[i], candidate_responses) => questions[i].key \in asked
        /\ DOMAIN candidate_responses \subseteq asked

(* the farewell of an early exit in the copy of ask_question the engine uses *)
ExitGoodbye(q) ==
    Get(q.exit_message,
        IF IsBinaryOf[q] \/ engine = "utils" THEN DefaultGoodbye ELSE DefaultExitGoodbye)

(* C6: when a reply is matched to the question's exit_if, ask_question     *)
(* plays the question's exit_message (the default farewell when it has     *)
(* none), hangs up and returns None; the flow returns, run_conversation    *)
(* with the action "end" and that exit_message; the exit answer is not in  *)
(* the answers.                                                            *)
C6_ExitState ==
    (engine # "proc" /\ MatchedExitTrigger) =>
        /\ turn.kind = "exit"
        /\ turn.goodbye = ExitGoodbye(TurnQuestion)
        /\ turn.hangup /\ hangups = 1
        /\ pc = "done"
        /\ turn.key \notin DOMAIN candidate_responses
        /\ ~final_played
        /\ engine = "run" =>
             result = [action |-> "end", prompt |-> Get(TurnQuestion.exit_message, "Goodbye")]

C7_EmptyIsNoInput ==
    (OnQuestion /\ turn.response = "") =>
        /\ turn.kind = "no_input"
        /\ turn.calls = <<>>
        /\ turn.key \notin DOMAIN candidate_responses
        /\ current_index < Len(questions)
        /\ questions[current_index + 1].key = turn.key
        /\ turn.goodbye = NoInputGoodbye
        /\ result.prompt # Get(TurnQuestion.exit_message, "Goodbye")

(* C4: the clarification loop of a question ends: a call that is inside   *)
(* ask_question eventually leaves it.                                      *)
C4_ClarificationTerminates == (pc = "ask") ~> (pc # "ask")

(* C8 as stated: in every engine the follow-up classifier is called at     *)
(* most once per question.                                                 *)
C8_FollowUpOncePerQuestion == fup_checks <= 1

(* C8 amended: in both copies of ask_question the follow-up classifier is  *)
(* called at most once per question, and never in a pass that began in     *)
(* clarification mode; process_input keeps no clarification mode and calls *)
(* it on every reply to an option question.                                *)
C8_FollowUpOnceInAskQuestion ==
    /\ engine # "proc" =>
         /\ fup_checks <= 1
         /\ turn.clarifying => ~Called("is_followup_question")
    /\ (engine = "proc" /\ OptionTurn) => Called("is_followup_question")

(* a second unmatched reply, given in clarification mode *)
C8_Witness ==
    /\ engine = "seq"
    /\ OptionTurn
    /\ turn.clarifying
    /\ turn.kind = "clarify"
    /\ fup_checks = 1

(* C9 as stated: the follow-up classifier is consulted only after option   *)
(* matching has failed.                                                    *)
C9_FollowUpAfterValidation ==
    (OnQuestion /\ Called("is_followup_question")) =>
        /\ Called("validate_option")
        /\ turn.calls[1] = "validate_option"
        /\ ~InList(turn.vtext, LowerOptionsOf[TurnQuestion])

(* C9 amended: the follow-up classifier is consulted before option         *)
(* matching: when both run in a turn the follow-up check comes first and   *)
(* answered no, and a reply it classifies as a follow-up goes to a         *)
(* clarification turn without validate_option being called.                *)
C9_FollowUpBeforeValidation ==
    OnQuestion =>
        /\ (Called("is_followup_question") /\ Called("validate_option")) =>
             /\ turn.calls[1] = "is_followup_question"
             /\ turn.calls[2] = "validate_option"
             /\ ~turn.followup
        /\ turn.followup =>
             /\ turn.kind = "clarify"
             /\ turn.calls = <<"is_followup_question", "generate_smart_clarification">>
        /\ (Called("validate_option") /\ ~Called("is_followup_question")) =>
             turn.clarifying

(* a reply that contains a valid option was taken as a follow-up *)
C9_Witness ==
    /\ engine = "seq"
    /\ OptionTurn
    /\ turn.followup
    /\ turn.kind = "clarify"
    /\ OptionsIn[TurnQuestion][turn.response] # {}

QuestionOfKey(k) == questions[CHOOSE i \in DOMAIN questions : questions[i].key = k]

(* C10: every recorded or returned answer is one of the lower-cased valid  *)
(* options of its question, and an output of validate_option's LLM call    *)
(* that is not one of them ("none" included) gives a clarification turn    *)
(* with nothing recorded.                                                  *)
C10_AnswersAreValidOptions ==
    /\ \A k \in DOMAIN candidate_responses :
         InList(candidate_responses[k], LowerOptionsOf[QuestionOfKey(k)])
    /\ (OnQuestion /\ turn.kind = "answer") =>
         InList(turn.ret, LowerOptionsOf[TurnQuestion])
    /\ (OnQuestion /\ Called("validate_option")
          /\ ~InList(turn.vtext, LowerOptionsOf[TurnQuestion])) =>
         /\ turn.kind = "clarify"
         /\ turn.ret = None
         /\ turn.key \notin DOMAIN candidate_responses

(* "none" from the option classifier after an earlier answer was recorded *)
C10_Witness ==
    /\ engine = "seq"
    /\ "qualification" \in DOMAIN candidate_responses
    /\ OptionTurn
    /\ turn.vtext = "none"
    /\ turn.kind = "clarify"

(* C11: a turn whose reply is taken as a follow-up or as ambiguous leaves  *)
(* the position and the answers as they were; ask_question sets            *)
(* clarification_mode and stays in its loop with the clarification as the  *)
(* next prompt, process_input returns the action "clarify" with the        *)
(* clarification as the prompt; the turn after it is for the same question *)
(* key and, in ask_question, plays that clarification.                     *)
C11_ClarifyStep ==
    /\ turn'.kind = "clarify" =>
         /\ current_index' = current_index
         /\ candidate_responses' = candidate_responses
         /\ questions[current_index' + 1].key = turn'.key
         /\ engine = "proc" =>
              result' = [action |-> "clarify", prompt |-> turn'.smart_prompt]
         /\ engine # "proc" =>
              /\ clarification_mode'
              /\ smart_prompt' = turn'.smart_prompt
              /\ pc' = "ask"
    /\ turn.kind = "clarify" =>
         /\ turn'.key = turn.key
         /\ engine # "proc" => (turn'.clarifying /\ turn'.prompt = turn.smart_prompt)

C11_ClarificationKeepsQuestion == [][C11_ClarifyStep]_vars

(* process_input asked for a clarification on the second question *)
C11_Witness ==
    /\ engine = "proc"
    /\ turn.kind = "clarify"
    /\ turn.key = "qualification"
    /\ current_index = 1
    /\ result.action = "clarify"
    /\ DOMAIN candidate_responses = {"confirmation"}

(* C12: when the LLM call of the clarification generator failed, the text  *)
(* of the failure path is not spoken as the clarification: the next turn   *)
(* plays the question's original prompt, and process_input does not hand   *)
(* the failure text back as the prompt.                                    *)
C12_NoFailureTextSpoken ==
    OnQuestion =>
        /\ turn.clarifying => turn.prompt # Apology
        /\ (turn.kind = "clarify" /\ engine = "proc") => result.prompt # Apology

C12_FailedClarificationReplaysPrompt ==
    /\ []C12_NoFailureTextSpoken
    /\ [][(OnQuestion /\ engine # "proc" /\ turn.kind = "clarify"
             /\ turn.smart_prompt = Apology)
            => turn'.prompt = TurnQuestion.question]_vars

(* C15: once run_conversation or process_input has returned "end" or      *)
(* "complete", nothing changes the position or the answers any more.       *)
C15_TerminalIsFinal ==
    [][result.action \in {"end", "complete"} =>
         /\ current_index' = current_index
         /\ candidate_responses' = candidate_responses]_vars

(* C18: no question with an empty valid_options, or with an exit_if that   *)
(* is not one of its valid options, is ever put to the caller.             *)
C18_MalformedNeverAsked ==
    \A i \in DOMAIN questions :
        questions[i].key \in asked =>
            /\ Len(questions[i].valid_options) > 0
            /\ questions[i].exit_if # None =>
                 InList(ExitIfOf[questions[i]], LowerOptionsOf[questions[i]])

(* the session is complete: the position is past the last question, the   *)
(* final message was played (returned, by the DialogueManager), and the    *)
(* answers hold one entry for each question asked                          *)
Completed ==
    /\ current_index = Len(questions)
    /\ DOMAIN candidate_responses = asked
    /\ engine = "seq" => (final_played /\ pc = "done")
    /\ engine \in {"run", "proc"} => result.action = "complete"

(* no synthesis and no recognition is canceled *)
SpeechWorks ==
    /\ turn.tts # "canceled" /\ turn.tts_goodbye # "canceled" /\ turn.speech # Canceled
    /\ (engine = "seq" /\ pc = "done" /\ current_index = Len(questions)) => final_played

(* C20: if every reply is matched to an option that is not the question's  *)
(* exit_if (and the speech services work), the session reaches completion. *)
C20_MatchedAnswersComplete ==
    [](SpeechWorks /\ (OnQuestion => (MatchedOption # None /\ ~MatchedExitTrigger)))
        => <>Completed

(* what session s's caller was played at the end of its last playback, if  *)
(* that playback is the last thing the session did                         *)
JustPlayed(s) == engine = "agi" /\ sess[s].pc \in {"record", "done"}

(* C14: concurrent calls are isolated: what a session plays to its caller  *)
(* is a file the session wrote itself, or at least holds the utterance the *)
(* session synthesized for this turn; it never plays an utterance that     *)
(* another session wrote for its own caller.                               *)
C14_SessionsIsolated ==
    \A s \in Sessions :
        (JustPlayed(s) /\ sess[s].heard # NoFile)
            => (sess[s].heard.by = s \/ sess[s].heard.text = sess[s].text)

(* a pass of ask_question in which the synthesizer or the recognizer       *)
(* reported a cancellation                                                 *)
IoFailed ==
    \/ turn.tts = "canceled"
    \/ turn.tts_goodbye = "canceled"
    \/ turn.speech = Canceled

(* C13: a failure of the speech synthesizer or of the recognizer ends the  *)
(* session at that turn with an outcome of its own (not the no-input, the  *)
(* early-exit or the answered outcome), and the channel is hung up.        *)
C13_IoFailureEndsSession ==
    IoFailed => /\ pc = "done"
                /\ turn.hangup
                /\ turn.kind \notin {"no_input", "exit", "answer"}

(* the texts played in the last pass of ask_question *)
Spoken == {turn.spoken[i] : i \in DOMAIN turn.spoken}

AgiFarewells == {NoInputGoodbye, AgiExitGoodbye}

(* C16: when a call has ended, a farewell was played to the caller: the    *)
(* goodbye of the pass that ended it or the final message in the           *)
(* sequential flow, one of the two goodbyes in the AGI support bot.        *)
C16_FarewellBeforeEnd ==
    /\ (engine = "seq" /\ pc = "done")
          => (final_played \/ (turn.goodbye # None /\ turn.goodbye \in Spoken))
    /\ engine = "agi"
          => \A s \in Sessions :
                sess[s].pc = "done" => sess[s].heard.text \in AgiFarewells

(* C17: the apology that query_llm returns when the LLM call failed is     *)
(* never played to a caller, neither by ask_question nor by the AGI        *)
(* support bot.                                                            *)
C17_NoErrorTextSpoken ==
    /\ Apology \notin Spoken
    /\ engine = "agi" => \A s \in Sessions : sess[s].heard.text # Apology

TurnOps == <<"generate_tts_file", "stream_file", "record_file", "recognize_from_file">>

(* C19: a pass of ask_question synthesizes and plays the prompt, then      *)
(* records, then transcribes, and only then runs the classifiers; it       *)
(* records once, and the caller was played the prompt before the           *)
(* recording was made.                                                     *)
C19_TurnOrder ==
    turn.ops # <<>> =>
        /\ Len(turn.ops) >= 4
        /\ SubSeq(turn.ops, 1, 4) = TurnOps
        /\ \A i \in DOMAIN turn.ops :
              i > 4 => turn.ops[i] \notin {"record_file", "recognize_from_file"}
        /\ turn.spoken # <<>>
        /\ turn.spoken[1] = turn.prompt

(* a step of the DialogueManager that moves the cursor: by one, on the     *)
(* question it was at, and with that question's answer recorded            *)
CursorStep ==
    \/ current_index' = current_index
    \/ /\ current_index' = current_index + 1
       /\ current_index < Len(questions)
       /\ turn'.kind = "answer"
       /\ turn'.key = CurrentQuestion.key
       /\ candidate_responses' = Put(candidate_responses, turn'.key, turn'.ret)

(* C21: the cursor of the DialogueManager (run_conversation and            *)
(* process_input) never exceeds the number of questions, never decreases,  *)
(* and a step changes it only by +1 and only together with recording the   *)
(* answer of the question it was at.                                       *)
C21_CursorMonotone ==
    /\ [](engine \in {"run", "proc"} => current_index \in 0..Len(questions))
    /\ [][(engine \in {"run", "proc"}) => CursorStep]_vars

(* the cursor has reached the end of a three-question list, one recorded   *)
(* answer per step                                                         *)
C21_Witness ==
    /\ engine \in {"run", "proc"}
    /\ Len(questions) = 3
    /\ current_index = 3
    /\ Cardinality(DOMAIN candidate_responses) = 3

SaidExit(s) ==
    /\ engine = "agi"
    /\ sess[s].user_input # None
    /\ IsExitOf[sess[s].user_input]

(* C23: when the reply contains one of the exit keywords (compared in      *)
(* lower case, as a substring), the turn goes straight to the farewell:    *)
(* no helper and no LLM call is made for it, the goodbye is what the       *)
(* session synthesizes and streams, and the call is hung up after it.      *)
C23_ExitFastPath ==
    \A s \in Sessions :
        SaidExit(s) =>
            /\ sess[s].calls = <<>>
            /\ sess[s].text = AgiExitGoodbye
            /\ sess[s].file = "goodbye"
            /\ sess[s].then = "hangup"
            /\ sess[s].pc \in {"tts", "play", "done"}
            /\ sess[s].pc = "done" => sess[s].hungup

(* a caller said "Thank you, bye", heard the goodbye and was hung up *)
C23_Witness ==
    /\ engine = "agi"
    /\ \E s \in Sessions :
         /\ sess[s].user_input = "Thank you, bye"
         /\ sess[s].pc = "done"
         /\ sess[s].hungup
         /\ sess[s].heard.text = AgiExitGoodbye

(* the caller of the current listen stays silent: the recognizer has put   *)
(* no text into the buffer                                                 *)
CallerSilent == engine = "listen" => listen.buffered_text = ""

(* C24: a speech-input call returns to its caller: when the caller stays   *)
(* silent throughout, start_recognition and speech_to_text still return    *)
(* (with no text).                                                         *)
C24_ListenReturns ==
    []CallerSilent => <>(engine = "listen" => listen.pc = "returned")

(* speech_to_text alone does return, with or without its timeout expiring *)
SpeechToTextReturns ==
    <>(listen.mode = "once" => listen.pc = "returned")

(* C25: what a cleaner returns contains none of the three framing tokens,  *)
(* and cleaning it again changes nothing.                                  *)
C25_CleanedHasNoToken ==
    engine = "clean" =>
        /\ reply.passes >= 1 => ~HasToken(reply.text)
        /\ reply.passes = 2 => reply.again = reply.text

(***************************************************************************)
(* C26: a failure of the persistence step is not fatal to the call.  When  *)
(* the store fails at the end of main_flow, the failure is logged, nothing *)
(* raises out of the flow, and the outcome and the final spoken message    *)
(* are those of a run whose store succeeded: "completed" after the final   *)
(* message.                                                                *)
(***************************************************************************)
C26_StoreFailureNotFatal ==
    (engine = "main" /\ script.pc = "done" /\ script.store = "OSError") =>
        /\ script.last.spoken = <<final_message>>
        /\ script.raised = None
        /\ script.logged
        /\ script.outcome = "completed"

(***************************************************************************)
(* C27: prompt selection within one question of ask_question.  The first   *)
(* pass for a question plays the question's primary prompt; every later    *)
(* pass plays the clarification that the pass just before it generated     *)
(* from its own reply, never the primary prompt again; and when the next   *)
(* question is entered clarification_mode is false again.                  *)
(***************************************************************************)
InAskQuestion == engine \in {"seq", "run", "utils"} /\ pc = "ask"

PromptStep ==
    IF turn.kind = "clarify"
      THEN /\ turn'.clarifying
           /\ turn'.key = turn.key
           /\ turn'.prompt = turn.smart_prompt
           /\ turn.clarification_of = turn.response
           /\ Called("generate_smart_clarification")
      ELSE /\ ~turn'.clarifying
           /\ turn'.key = CurrentQuestion.key
           /\ turn'.prompt = CurrentQuestion.question

C27_PromptSelection ==
    /\ [](InAskQuestion => (clarification_mode <=> turn.kind = "clarify"))
    /\ [][InAskQuestion => PromptStep]_vars

(* a second clarification in a row: its prompt is the clarification of the *)
(* pass before it, which differs from the one played before that           *)
C27_Witness ==
    /\ InAskQuestion
    /\ turn.kind = "clarify"
    /\ turn.clarifying
    /\ turn.prompt # turn.smart_prompt
    /\ turn.prompt # CurrentQuestion.question

(***************************************************************************)
(* C28: query_llm forwards to the backend exactly the system and user      *)
(* entries of the conversation history, in their original relative order,  *)
(* and drops every entry with any other role: an assistant reply in the    *)
(* history is never sent.                                                  *)
(***************************************************************************)
Forwarded == {i \in DOMAIN history.entries : history.entries[i].role \in {"system", "user"}}

(* the entry that the j-th message comes from: the j-th forwarded entry *)
EntryOf(j) == CHOOSE i \in Forwarded : Cardinality({k \in Forwarded : k <= i}) = j

C28_ForwardsSystemAndUserOnly ==
    (engine = "history" /\ history.pc = "returned") =>
        /\ Len(history.messages) = Cardinality(Forwarded)
        /\ \A j \in DOMAIN history.messages :
             /\ history.messages[j].content = history.entries[EntryOf(j)].content
             /\ history.messages[j].type =
                  IF history.entries[EntryOf(j)].role = "system" THEN "SystemMessage"
                  ELSE "UserMessage"

(* a history with a user entry, an assistant reply and a later user entry  *)
C28_Witness ==
    /\ engine = "history" /\ history.pc = "returned"
    /\ Len(history.entries) = 3
    /\ history.entries[1].role = "user" /\ history.entries[1].content = "a"
    /\ history.entries[2].role = "assistant"
    /\ history.entries[3].role = "user" /\ history.entries[3].content = "b"
    /\ history.messages = <<UserMessage("a"), UserMessage("b")>>

(***************************************************************************)
(* C29: in the question flow a yes/no question is never recorded with the  *)
(* value "no".  Every recorded answer of a question whose valid options    *)
(* are ["yes", "no"] is "yes", with or without an exit_if, because a pass  *)
(* that classifies the reply as negative hangs up and records nothing.     *)
(***************************************************************************)
NegativeStep ==
    (turn'.kind # "none" /\ turn'.sentiment = "negative") =>
        /\ turn'.hangup
        /\ turn'.ret = None
        /\ candidate_responses' = candidate_responses
        /\ pc' = "done"

SentimentFailed(t) == t.kind # "none" /\ t.stext = SentimentTextOf[Apology]

ValidationFailed(t) == t.kind # "none" /\ t.vtext = ValidateTextOf[Apology]

BackendFailureStep ==
    /\ SentimentFailed(turn') =>
          /\ turn'.sentiment = "positive"
          /\ turn'.kind = "answer" /\ turn'.ret = "yes"
          /\ ~turn'.hangup
          /\ candidate_responses' = Put(candidate_responses, CurrentQuestion.key, "yes")
          /\ current_index' = current_index + 1
    /\ ValidationFailed(turn') =>
          /\ turn'.kind = "clarify" /\ turn'.ret = None
          /\ ~turn'.hangup
          /\ turn'.clarification_mode
          /\ pc' = "ask"
          /\ current_index' = current_index
          /\ candidate_responses' = candidate_responses

C30_BackendFailure ==
    /\ []((engine = "history" /\ history.pc = "returned") =>
            /\ history.raised = None
            /\ history.outcome = Raises => history.returned = Apology)
    /\ [][(engine \in {"seq", "run"} /\ pc = "ask") => BackendFailureStep]_vars

(* the backend failed in determine_sentiment for the first question:      *)
(* "yes" is recorded and the second question is next                       *)
C30_Witness ==
    /\ engine = "seq" /\ questions = HardQuestions
    /\ turn.key = "confirmation" /\ SentimentFailed(turn)
    /\ candidate_responses = Put(EmptyDict, "confirmation", "yes")
    /\ current_index = 1

(* the backend failed in validate_option for the second question, which is *)
(* asked again                                                             *)
ValidationFailedWitness ==
    /\ engine = "seq" /\ questions = HardQuestions
    /\ current_index = 1 /\ pc = "ask"
    /\ turn.key = "qualification" /\ ValidationFailed(turn)
    /\ turn.kind = "clarify"

(***************************************************************************)
(* C31: in every run of a FastAGI session the channel is hung up at most   *)
(* once, and after the hangup no prompt is played, no recording is made,   *)
(* no answer is recorded and no utterance is handed back to be spoken:     *)
(* hangup is the last operation of its pass, the flow takes no step after  *)
(* it, and the run returns no prompt.                                      *)
(***************************************************************************)
HungUp == engine \in {"seq", "run"} /\ hangups >= 1

HangupIsLast ==
    \A i \in DOMAIN turn.ops : turn.ops[i] = "hangup" => i = Len(turn.ops)

C31_HangupOnce ==
    /\ [](engine \in {"seq", "run"} => hangups <= 1 /\ HangupIsLast)
    /\ [](HungUp => result.prompt = None)
    /\ [][HungUp => UNCHANGED vars]_vars

(***************************************************************************)
(* C32: the two copies of ask_question (fastagi_server.py and              *)
(* dialogue_utils.py) are behaviourally equivalent.  On the same question  *)
(* data, given the same recognized texts and the same helper results, they *)
(* play the same prompts and farewells, hang up at the same point and      *)
(* return the same value.                                                  *)
(***************************************************************************)
C32_CopiesEquivalent == engine = "copies" => twin.a = twin.b

(***************************************************************************)
(* C33: in the scripted main_flow each step issues at most one corrective  *)
(* re-prompt; the revised reply is accepted without being checked again.   *)
(* So a run over N script steps performs at most 2N listens and always     *)
(* terminates, and the value stored for a step is the last reply received  *)
(* for that step (stripped, as main_flow stores it).                       *)
(***************************************************************************)
Correctives(l) ==
    Cardinality({i \in DOMAIN l.spoken :
                    \E c \in DOMAIN CheckMessage : l.spoken[i] = CheckMessage[c]})

StepBounded ==
    /\ Len(script.last.replies) <= 2
    /\ Correctives(script.last) <= 1
    /\ Correctives(script.last) = Len(script.last.replies) - 1
         \/ script.last.replies = <<>>
    /\ CountCalls(script.last.calls, "custom_check") <= 1
    /\ script.listens <= 2 * script.step + Len(script.last.replies)
    /\ script.listens <= 2 * Len(conversation_script)

StoresLastReply ==
    (script'.step = script.step + 1) =>
        LET l == script'.last
        IN  /\ l.variable = conversation_script[script.step + 1].variable
            /\ script'.candidate_info[l.variable] = Strip(l.replies[Len(l.replies)])
            /\ \A k \in DOMAIN script.candidate_info :
                  script'.candidate_info[k] = script.candidate_info[k]

C33_OneCorrectivePerStep ==
    /\ [](engine = "main" => StepBounded)
    /\ [][engine = "main" => StoresLastReply]_vars
    /\ <>(engine = "main" => script.pc = "done")

(* a completed run in which every checked step was corrected once: 8 first *)
(* replies and 5 revised ones, the revised ones stored                     *)
C33_Witness ==
    /\ engine = "main" /\ script.pc = "done" /\ script.outcome = "completed"
    /\ script.listens = 13
    /\ script.candidate_info["location"] = "Gurgaon"
    /\ script.candidate_info["job_interest"] = "Yes"

(***************************************************************************)
(* C34: in the scripted main_flow candidate data is refined and saved only *)
(* after every script step has completed.  A run that ends on no input or  *)
(* on a negative-intent reply returns without calling                      *)
(* refine_candidate_data or save_candidate_info, so no partial record is   *)
(* ever persisted.                                                         *)
(***************************************************************************)
ScriptVariables == {conversation_script[i].variable : i \in DOMAIN conversation_script}

Persisting ==
    \/ InList("refine_candidate_data", script.last.calls)
    \/ InList("save_candidate_info", script.last.calls)
    \/ script.refined # NoValue
    \/ script.store # None
    \/ script.saved # <<>>

C34_SavedOnlyWhenComplete ==
    engine = "main" =>
        /\ Persisting =>
              /\ script.step = Len(conversation_script)
              /\ DOMAIN script.candidate_info = ScriptVariables
              /\ script.outcome \in {"completed", "raised"}
        /\ script.outcome \in {"no_input", "declined"} => ~Persisting

(* a run that was declined at the last step, with seven values collected   *)
(* and nothing saved                                                       *)
C34_Witness ==
    /\ engine = "main" /\ script.pc = "done" /\ script.outcome = "declined"
    /\ script.step = 7
    /\ Cardinality(DOMAIN script.candidate_info) = 7
    /\ script.saved = <<>> /\ ~Persisting

(***************************************************************************)
(* C35: the value refine_candidate_data returns, and that is handed to     *)
(* save_candidate_info, is always a mapping of candidate fields: the       *)
(* parsed refinement, or the original candidate_info unchanged whenever    *)
(* the LLM output cannot be used as refined data.                          *)
(***************************************************************************)
C35_RefinedIsMapping ==
    (engine = "main" /\ InList("refine_candidate_data", script.last.calls)) =>
        /\ script.refined.type = "dict"
        /\ script.refined.items \in {Refined(script.candidate_info), script.candidate_info}
        /\ script.raised # "AttributeError"

(***************************************************************************)
(* C36: for every interleaving of the recognizer's interim and final       *)
(* callbacks, the transcript that HybridSTT.start_recognition returns      *)
(* contains every final segment exactly once and in recognition order: an  *)
(* interim result after a final one does not discard the finalized text,   *)
(* and interim text is not duplicated next to its final.  The transcript   *)
(* is the finals joined by spaces, followed at most by an interim text     *)
(* that has not been finalized yet.                                        *)
(***************************************************************************)
RECURSIVE JoinFinals(_)
JoinFinals(finals) ==
    IF finals = <<>> THEN ""
    ELSE IF Len(finals) = 1 THEN finals[1]
    ELSE finals[1] \o " " \o JoinFinals(Tail(finals))

Transcripts(finals) ==
    {JoinFinals(finals)} \cup
        {Strip(JoinFinals(finals) \o " " \o interim) : interim \in InterimTexts}

C36_TranscriptKeepsFinals ==
    (engine = "listen" /\ listen.mode = "hybrid" /\ listen.pc = "returned") =>
        listen.result \in Transcripts(listen.finals)

(***************************************************************************)
(* C37: when the timeout of speech_to_text expires before the recognition  *)
(* worker has finished, speech_to_text returns None to its caller at that  *)
(* point, without waiting for the worker: the step that ends the wait in   *)
(* future.result returns to the caller, and the call is never left with    *)
(* its timeout expired, its worker running and its caller still waiting.   *)
(***************************************************************************)
InSpeechToText == engine = "listen" /\ listen.mode = "once"

C37_TimeoutReturnsAtOnce ==
    /\ [][(InSpeechToText /\ listen.pc = "waiting" /\ listen'.pc # "waiting")
             => (listen'.pc = "returned")]_vars
    /\ [](InSpeechToText => listen.pc # "timed_out")

=============================================================================
